---- MODULE Spec2Model ----
(***************************************************************************)
(* A model of the HyperCLOVA client library: the streaming pipeline        *)
(* (hyperclova/streaming.py), the retry driver and capability validator    *)
(* (hyperclova/utils.py), the chat request builder and the non-streaming   *)
(* exchange (hyperclova/completions.py, hyperclova/embeddings.py), the    *)
(* status-code taxonomy (hyperclova/exceptions.py), the gathered batch of  *)
(* embedding requests (hyperclova/embeddings.py) and the client object     *)
(* with its HTTP clients (hyperclova/client.py).                           *)
(*                                                                         *)
(* Text is modelled as sequences of one-character strings, so that the     *)
(* parser's splitting, stripping and field matching are computed, and an   *)
(* input can be cut at every character position.  An Optional value is a   *)
(* sequence of length 0 (None) or 1 (the value).                           *)
(***************************************************************************)
EXTENDS Integers, Sequences, FiniteSets, TLC

VARIABLES
    buffer,          \* SSEParser.buffer
    pending,         \* parser run: the chunks still to be fed to parse()
    fed,             \* parser run: the chunks fed so far, one per parse() call
    yielded,         \* parser run: the events each parse() call yielded
    parsed,          \* parser run: every event block split off, with its outcome
    frames,          \* stream: the frames the server wrote, in wire order
    lines,           \* stream: what response.iter_lines() yields, in order
    pos,             \* stream: the number of lines read from the transport
    is_async,        \* stream: AsyncStreamingResponse rather than StreamingResponse
    pc,              \* stream: where the chunk generator stands
    chunks,          \* stream: the chunks yielded to the consumer, in order
    raised,          \* stream: the exception the iteration raised, if any
    closed,          \* stream: the number of response.close() calls
    max_retries,     \* request: self.max_retries of the client object
    rpc,             \* request: where the non-streaming call stands
    attempt,         \* retry_with_backoff: the loop variable
    delay,           \* retry_with_backoff: the next sleep, in seconds
    last_exception,  \* retry_with_backoff: the exception kept for the final raise
    trace,           \* request: the calls of the operation and the sleeps, in order
    outcome,         \* request: what the caller gets
    endpoint,        \* request: "chat" or "embedding", once the call is made
    call_async,      \* request: issued by acreate rather than create
    script,          \* request: what the transport answers to each post, in order
    kwargs,          \* build: the arguments of the create/acreate call
    bstate,          \* build: where the create/acreate call stands
    request,         \* build: the ChatCompletionRequest built, if any
    error,           \* build: the type of the exception the call raised, if any
    posts,           \* build: the number of requests handed to the transport
    capcall,         \* build: a direct call of a utility function, if any
    _chat,           \* client: HyperClova._chat and its _completions
    _embeddings,     \* client: HyperClova._embeddings
    clients,         \* client: the _client/_async_client field of each sub-client
    handles,         \* client: every httpx client created, "open" or "closed"
    last_op,         \* client: the operation that returned last
    texts,           \* batch: the texts argument of acreate_batch
    batch_request_id,\* batch: the request_id argument of acreate_batch
    tasks,           \* batch: the acreate coroutines handed to asyncio.gather
    completed,       \* batch: the tasks that finished, in the order they did
    batch_pc,        \* batch: where the acreate_batch call stands
    batch_result     \* batch: what acreate_batch returned or raised

parserVars == <<pending, fed, yielded, parsed>>

streamVars == <<frames, lines, pos, is_async, pc, chunks, raised, closed>>

retryVars == <<max_retries, rpc, attempt, delay, last_exception, trace, outcome>>

callVars == <<endpoint, call_async, script>>

buildVars == <<kwargs, bstate, request, error, posts, capcall>>

clientVars == <<_chat, _embeddings, clients, handles, last_op>>

batchVars == <<texts, batch_request_id, tasks, completed, batch_pc, batch_result>>

sdkVars == <<callVars, buildVars, clientVars, batchVars>>

vars == <<buffer, pending, fed, yielded, parsed,
          frames, lines, pos, is_async, pc, chunks, raised, closed,
          max_retries, rpc, attempt, delay, last_exception, trace, outcome,
          endpoint, call_async, script,
          kwargs, bstate, request, error, posts, capcall,
          _chat, _embeddings, clients, handles, last_op,
          texts, batch_request_id, tasks, completed, batch_pc, batch_result>>

----------------------------------------------------------------------------
(* Optional values and text helpers (Python str methods).                  *)

None == <<>>

Some(v) == <<v>>

\* Python truthiness of an Optional[str]: None and "" are both falsy.
Truthy(opt) == opt # None /\ opt[1] # <<>>

\* The characters str.strip()/str.lstrip() remove that the model's texts use.
Whitespace == {" ", "\t", "\n", "\r"}

Digits == {"0", "1", "2", "3", "4", "5", "6", "7", "8", "9"}

DigitVal(c) ==
    CASE c = "0" -> 0 [] c = "1" -> 1 [] c = "2" -> 2 [] c = "3" -> 3
      [] c = "4" -> 4 [] c = "5" -> 5 [] c = "6" -> 6 [] c = "7" -> 7
      [] c = "8" -> 8 [] c = "9" -> 9

\* str.lstrip()
RECURSIVE LStrip(_)
LStrip(s) ==
    IF s # <<>> /\ Head(s) \in Whitespace THEN LStrip(Tail(s)) ELSE s

\* str.rstrip()
RECURSIVE RStrip(_)
RStrip(s) ==
    IF s # <<>> /\ s[Len(s)] \in Whitespace
    THEN RStrip(SubSeq(s, 1, Len(s) - 1))
    ELSE s

\* not s.strip()
IsBlankStr(s) == \A i \in 1..Len(s) : s[i] \in Whitespace

\* str.find(sep) + 1: the first position of sep in s, 0 when absent.
Find(s, sep) ==
    LET hits == {i \in 1..(Len(s) - Len(sep) + 1) :
                    SubSeq(s, i, i + Len(sep) - 1) = sep}
    IN  IF hits = {} THEN 0 ELSE CHOOSE i \in hits : \A j \in hits : i <= j

\* sep in s
Contains(s, sep) == Find(s, sep) # 0

\* s.split(sep, 1), for a separator that occurs in s.
SplitOnce(s, sep) ==
    LET i == Find(s, sep)
    IN  <<SubSeq(s, 1, i - 1), SubSeq(s, i + Len(sep), Len(s))>>

\* s.split("\n")
RECURSIVE SplitLines(_)
SplitLines(s) ==
    IF Contains(s, <<"\n">>)
    THEN LET sp == SplitOnce(s, <<"\n">>) IN <<sp[1]>> \o SplitLines(sp[2])
    ELSE <<s>>

\* The value of a digit string, most significant digit first.
RECURSIVE DigitsValue(_, _)
DigitsValue(s, acc) ==
    IF s = <<>> THEN acc ELSE DigitsValue(Tail(s), acc * 10 + DigitVal(Head(s)))

\* int(value): surrounding whitespace is ignored, a sign is allowed, and
\* anything else raises ValueError (None here).
ParseInt(value) ==
    LET t == RStrip(LStrip(value))
        signed == t # <<>> /\ Head(t) \in {"+", "-"}
        body == IF signed THEN Tail(t) ELSE t
    IN  IF body # <<>> /\ \A i \in 1..Len(body) : body[i] \in Digits
        THEN Some((IF signed /\ Head(t) = "-" THEN -1 ELSE 1) * DigitsValue(body, 0))
        ELSE None

RECURSIVE Flatten(_)
Flatten(ss) == IF ss = <<>> THEN <<>> ELSE Head(ss) \o Flatten(Tail(ss))

----------------------------------------------------------------------------
(* Field names and the event terminator.                                   *)

F_id == <<"i", "d">>

F_event == <<"e", "v", "e", "n", "t">>

F_data == <<"d", "a", "t", "a">>

F_retry == <<"r", "e", "t", "r", "y">>

NLNL == <<"\n", "\n">>

----------------------------------------------------------------------------
(* SSEEvent and SSEParser.                                                 *)

SSEEvent == [id |-> None, event |-> None, data |-> None, retry |-> None]

\* One iteration of the loop over the lines of an event block.
ParseLine(event, line) ==
    IF line = <<>> THEN event
    ELSE IF ~Contains(line, <<":">>) THEN event
    ELSE LET fv == SplitOnce(line, <<":">>)
             field == fv[1]
             value == LStrip(fv[2])
         IN  CASE field = F_id -> [event EXCEPT !.id = Some(value)]
               [] field = F_event -> [event EXCEPT !.event = Some(value)]
               [] field = F_data -> [event EXCEPT !.data = Some(value)]
               [] field = F_retry ->
                    IF ParseInt(value) # None
                    THEN [event EXCEPT !.retry = ParseInt(value)]
                    ELSE event
               [] OTHER -> event

RECURSIVE ParseLines(_, _)
ParseLines(event, ls) ==
    IF ls = <<>> THEN event
    ELSE ParseLines(ParseLine(event, Head(ls)), Tail(ls))

\* The test with `is not None` in place of truthiness.
HasDataNotNone(event) == event.data # None

\* The test that decides whether a parsed event is returned.
HasData(event) == Truthy(event.data)

\* SSEParser._parse_event: None, or the event.
_parse_event(event_str) ==
    IF IsBlankStr(event_str) THEN None
    ELSE LET event == ParseLines(SSEEvent, SplitLines(event_str))
         IN  IF HasData(event) THEN Some(event) ELSE None

\* self.buffer += chunk, replaced by an assignment.
BufferAssign(buf, chunk) == chunk

\* self.buffer += chunk
BufferAppend(buf, chunk) == buf \o chunk

\* The loop of parse() run once at most (`if` in place of `while`).
ParseOnce(buf, events, blocks) ==
    IF Contains(buf, NLNL)
    THEN LET sp == SplitOnce(buf, NLNL)
             event == _parse_event(sp[1])
         IN  [buffer |-> sp[2],
              events |-> IF event # None THEN Append(events, event[1]) ELSE events,
              parsed |-> Append(blocks, [block |-> sp[1], event |-> event])]
    ELSE [buffer |-> buf, events |-> events, parsed |-> blocks]

\* The while loop of parse(), run until the buffer holds no "\n\n".
RECURSIVE ParseLoop(_, _, _)
ParseLoop(buf, events, blocks) ==
    IF Contains(buf, NLNL)
    THEN LET sp == SplitOnce(buf, NLNL)
             event == _parse_event(sp[1])
         IN  ParseLoop(sp[2],
                       IF event # None THEN Append(events, event[1]) ELSE events,
                       Append(blocks, [block |-> sp[1], event |-> event]))
    ELSE [buffer |-> buf, events |-> events, parsed |-> blocks]

\* SSEParser.parse, iterated to exhaustion by its caller: the new buffer, the
\* events yielded in order, and the blocks split off.
parse(buf, chunk) == ParseLoop(BufferAppend(buf, chunk), <<>>, <<>>)

----------------------------------------------------------------------------
(* The parser run: one SSEParser fed a text in one or two chunks.          *)

MaxPieces == 4

P_data_a == <<"d", "a", "t", "a", ":", " ", "a", "\n">>

P_data_b == <<"d", "a", "t", "a", ":", "b", "\n">>

P_data_empty == <<"d", "a", "t", "a", ":", " ", "\n">>

P_event == <<"e", "v", "e", "n", "t", ":", " ", "t", "\n">>

P_retry == <<"r", "e", "t", "r", "y", ":", "5", "\n">>

P_nocolon == <<"i", "d", "\n">>

P_space == <<" ", "\n">>

P_blank == <<"\n">>

Pieces == {P_data_a, P_data_b, P_data_empty, P_event, P_retry, P_nocolon,
           P_space, P_blank}

RECURSIVE TextsOfLen(_)
TextsOfLen(k) ==
    IF k = 0 THEN {<<>>}
    ELSE {t \o p : t \in TextsOfLen(k - 1), p \in Pieces}

Texts == UNION {TextsOfLen(k) : k \in 1..MaxPieces}

\* The text cut at position c: one chunk for c = 0, two chunks otherwise.
Cut(t, c) ==
    IF c = 0 THEN <<t>> ELSE <<SubSeq(t, 1, c), SubSeq(t, c + 1, Len(t))>>

NoOutcome == [kind |-> "none", value |-> "", exc |-> [type |-> "", id |-> 0]]

\* No non-streaming request is in progress.
RetryIdle ==
    /\ max_retries = 0
    /\ rpc = "idle"
    /\ attempt = 0
    /\ delay = 0
    /\ last_exception = None
    /\ trace = <<>>
    /\ outcome = NoOutcome

\* No non-streaming exchange with a scripted transport is in progress.
CallIdle ==
    /\ endpoint = ""
    /\ call_async = FALSE
    /\ script = <<>>

\* No create/acreate call is being built.
BuildIdle ==
    /\ kwargs = None
    /\ bstate = "idle"
    /\ request = None
    /\ error = ""
    /\ posts = 0
    /\ capcall = None

\* No HyperClova object exists.
ClientIdle ==
    /\ _chat = "idle"
    /\ _embeddings = "idle"
    /\ clients = <<>>
    /\ handles = <<>>
    /\ last_op = "idle"

\* No acreate_batch call is in progress.
BatchIdle ==
    /\ texts = <<>>
    /\ batch_request_id = <<>>
    /\ tasks = <<>>
    /\ completed = <<>>
    /\ batch_pc = "idle"
    /\ batch_result = <<>>

SdkIdle == CallIdle /\ BuildIdle /\ ClientIdle /\ BatchIdle

\* No streaming response exists.
StreamIdle ==
    /\ frames = <<>>
    /\ lines = <<>>
    /\ pos = 0
    /\ is_async = FALSE
    /\ pc = "idle"
    /\ chunks = <<>>
    /\ raised = None
    /\ closed = 0

InitParser ==
    /\ buffer = <<>>
    /\ \E t \in Texts : \E c \in 0..Len(t) : pending = Cut(t, c)
    /\ fed = <<>>
    /\ yielded = <<>>
    /\ parsed = <<>>
    /\ StreamIdle
    /\ RetryIdle
    /\ SdkIdle

\* for event in parser.parse(chunk): ...   (the generator run to its end)
ParserParse ==
    /\ pending # <<>>
    /\ LET r == parse(buffer, Head(pending))
       IN  /\ buffer' = r.buffer
           /\ yielded' = Append(yielded, r.events)
           /\ parsed' = parsed \o r.parsed
    /\ fed' = Append(fed, Head(pending))
    /\ pending' = Tail(pending)
    /\ UNCHANGED streamVars
    /\ UNCHANGED retryVars
    /\ UNCHANGED sdkVars

NextParser == ParserParse

SpecParser == InitParser /\ [][NextParser]_vars

----------------------------------------------------------------------------
(* Properties of the parser run.                                           *)

ParserDone == pending = <<>>

\* A text that forms one complete frame: fed whole to a fresh parser it
\* yields exactly one frame and leaves nothing behind.
OneFrameText(t) ==
    LET r == ParseLoop(t, <<>>, <<>>)
    IN  Len(r.events) = 1 /\ r.buffer = <<>>

\* C4: a text that forms one complete frame, cut at any position into two
\* chunks and fed in two successive parse calls, yields in total exactly one
\* frame, equal field for field to the frame of the unfragmented text, and
\* leaves the buffer empty.
C4_SplitFrameYieldsSameFrame ==
    (ParserDone /\ Len(fed) = 2 /\ OneFrameText(Flatten(fed)))
        => /\ Len(Flatten(yielded)) = 1
           /\ Flatten(yielded) = ParseLoop(Flatten(fed), <<>>, <<>>).events
           /\ buffer = <<>>

\* A frame cut between the two newlines of its terminator: the first call
\* yields nothing and the second call yields the frame.
C4_Witness ==
    /\ ParserDone /\ Len(fed) = 2
    /\ OneFrameText(Flatten(fed))
    /\ fed[1] # <<>> /\ fed[2] = <<"\n">>
    /\ yielded[1] = <<>> /\ Len(yielded[2]) = 1

\* Complete frames with the events they stand for, written out by hand.
FrameA ==
    [text |-> P_data_a \o P_blank,
     event |-> [id |-> None, event |-> None, data |-> Some(<<"a">>), retry |-> None]]

FrameB ==
    [text |-> P_data_b \o P_blank,
     event |-> [id |-> None, event |-> None, data |-> Some(<<"b">>), retry |-> None]]

FrameEventA ==
    [text |-> P_event \o P_data_a \o P_blank,
     event |-> [id |-> None, event |-> Some(<<"t">>), data |-> Some(<<"a">>),
                retry |-> None]]

FrameRetryB ==
    [text |-> P_retry \o P_data_b \o P_blank,
     event |-> [id |-> None, event |-> None, data |-> Some(<<"b">>),
                retry |-> Some(5)]]

KnownFrames == {FrameA, FrameB, FrameEventA, FrameRetryB}

\* C5: one parse call on a fresh parser with one chunk holding two complete
\* frames back to back yields both frames from that call, the first before
\* the second, and leaves the buffer empty.
C5_TwoFramesOneCall ==
    \A f1 \in KnownFrames : \A f2 \in KnownFrames :
        (ParserDone /\ fed = <<f1.text \o f2.text>>)
            => /\ yielded = << <<f1.event, f2.event>> >>
               /\ buffer = <<>>

C5_Witness ==
    /\ ParserDone
    /\ fed = <<FrameA.text \o FrameB.text>>
    /\ yielded = << <<FrameA.event, FrameB.event>> >>

\* The positions of an event block at which a line starts with `data:`.
DataLineStarts(b) ==
    {i \in 1..Len(b) :
        /\ i + 4 <= Len(b)
        /\ SubSeq(b, i, i + 4) = F_data \o <<":">>
        /\ (i = 1 \/ b[i - 1] = "\n")}

\* The block has a `data:` line.
HasDataLine(b) == DataLineStarts(b) # {}

\* The block's last `data:` line has a character other than whitespace
\* after the colon.
LastDataLineNonEmpty(b) ==
    /\ DataLineStarts(b) # {}
    /\ LET i == CHOOSE k \in DataLineStarts(b) : \A j \in DataLineStarts(b) : j <= k
       IN  \E j \in (i + 5)..Len(b) :
              /\ b[j] \notin Whitespace
              /\ \A k \in (i + 5)..j : b[k] # "\n"

\* C6 as stated: a frame is emitted for an event block if and only if the
\* block has a `data:` line.
C6_FrameIffDataLine ==
    \A i \in 1..Len(parsed) :
        (parsed[i].event # None) <=> HasDataLine(parsed[i].block)

\* C6 amended: a frame is emitted for an event block if and only if the
\* block's last `data:` line has a non-empty value once leading whitespace
\* is stripped; a block with no `data:` line yields no frame.
C6_FrameIffNonEmptyData ==
    \A i \in 1..Len(parsed) :
        /\ (parsed[i].event # None) <=> LastDataLineNonEmpty(parsed[i].block)
        /\ ~HasDataLine(parsed[i].block) => parsed[i].event = None

\* A block with a `data:` line of empty value was parsed, and no frame came
\* of it; and a block with a non-empty one gave a frame.
C6_Witness ==
    /\ \E i \in 1..Len(parsed) :
          /\ HasDataLine(parsed[i].block)
          /\ ~LastDataLineNonEmpty(parsed[i].block)
          /\ parsed[i].event = None
    /\ \E i \in 1..Len(parsed) :
          /\ LastDataLineNonEmpty(parsed[i].block)
          /\ parsed[i].event # None

----------------------------------------------------------------------------
(* JSON payloads and ChatCompletionChunk.                                  *)
(*                                                                         *)
(* A payload is written in a two-characters-per-member JSON: "{" then      *)
(* key/value character pairs then "}".  The keys are m (message),          *)
(* c (created), s (seed), f (finishReason), u (usage) and t (status, its   *)
(* value standing for the status message).  A string of digits is a JSON   *)
(* number.  Every other text is not JSON.                                  *)

Letters == {"a", "b", "c", "d", "e", "f", "g", "h", "i", "j", "k", "l", "m",
            "n", "o", "p", "q", "r", "s", "t", "u", "v", "w", "x", "y", "z"}

\* json.loads: a number, an object (its keys and their values, the last
\* occurrence of a key winning), or JSONDecodeError.
json_loads(text) ==
    LET n == Len(text)
        inner == SubSeq(text, 2, n - 1)
        members == (n - 2) \div 2
    IN  IF n > 0 /\ \A i \in 1..n : text[i] \in Digits
        THEN [kind |-> "number", keys |-> {}, val |-> <<>>]
        ELSE IF /\ n >= 2 /\ text[1] = "{" /\ text[n] = "}"
                /\ (n - 2) % 2 = 0
                /\ \A i \in 1..members :
                      /\ inner[2 * i - 1] \in Letters
                      /\ inner[2 * i] \in Letters \cup Digits
        THEN LET ks == {inner[2 * i - 1] : i \in 1..members}
                 last(k) == CHOOSE i \in 1..members :
                                /\ inner[2 * i - 1] = k
                                /\ \A j \in 1..members : inner[2 * j - 1] = k => j <= i
             IN  [kind |-> "object", keys |-> ks,
                  val |-> [k \in ks |-> inner[2 * last(k)]]]
        ELSE [kind |-> "JSONDecodeError", keys |-> {}, val |-> <<>>]

NoChunk == [message |-> "", created |-> 0, seed |-> 0,
            finish_reason |-> None, usage |-> None]

NoError == [type |-> "", reason |-> ""]

\* ChatCompletionChunk(**data): message, created and seed are required,
\* created and seed are integers, finishReason and usage are optional.
ChatCompletionChunk(data) ==
    IF data.kind # "object"
    THEN [kind |-> "raise", chunk |-> NoChunk,
          exc |-> [type |-> "TypeError", reason |-> "argument after ** must be a mapping"]]
    ELSE IF ~({"m", "c", "s"} \subseteq data.keys)
            \/ data.val["c"] \notin Digits \/ data.val["s"] \notin Digits
    THEN [kind |-> "raise", chunk |-> NoChunk,
          exc |-> [type |-> "ValidationError", reason |-> "ChatCompletionChunk"]]
    ELSE [kind |-> "chunk",
          chunk |-> [message |-> data.val["m"],
                     created |-> DigitVal(data.val["c"]),
                     seed |-> DigitVal(data.val["s"]),
                     finish_reason |-> IF "f" \in data.keys
                                       THEN Some(data.val["f"]) ELSE None,
                     usage |-> IF "u" \in data.keys
                               THEN Some(data.val["u"]) ELSE None],
          exc |-> NoError]

----------------------------------------------------------------------------
(* StreamingResponse and AsyncStreamingResponse.                           *)

EV_error == <<"e", "r", "r", "o", "r">>

EV_result == <<"r", "e", "s", "u", "l", "t">>

EV_token == <<"t", "o", "k", "e", "n">>

Skip == [kind |-> "none", chunk |-> NoChunk, exc |-> NoError]

\* raise StreamingError(f"Streaming error: {data.get('status', {}).get('message', ...)}")
ErrorEvent(data) ==
    IF data.kind # "object"
    THEN [kind |-> "raise", chunk |-> NoChunk,
          exc |-> [type |-> "AttributeError", reason |-> "get"]]
    ELSE [kind |-> "raise", chunk |-> NoChunk,
          exc |-> [type |-> "StreamingError",
                   reason |-> IF "t" \in data.keys THEN data.val["t"]
                              ELSE "Unknown error"]]

\* A decision that decodes a frame of any other event name as a chunk too.
ProcessEventAnyName(event) ==
    IF ~Truthy(event.data) THEN Skip
    ELSE LET data == json_loads(event.data[1])
         IN  IF data.kind = "JSONDecodeError"
             THEN [kind |-> "raise", chunk |-> NoChunk,
                   exc |-> [type |-> "StreamingError", reason |-> "Invalid JSON in SSE"]]
             ELSE IF event.event = Some(EV_error) THEN ErrorEvent(data)
             ELSE ChatCompletionChunk(data)

\* A decision that skips the result frame.
ProcessEventNoResult(event) ==
    IF ~Truthy(event.data) THEN Skip
    ELSE LET data == json_loads(event.data[1])
         IN  IF data.kind = "JSONDecodeError"
             THEN [kind |-> "raise", chunk |-> NoChunk,
                   exc |-> [type |-> "StreamingError", reason |-> "Invalid JSON in SSE"]]
             ELSE IF event.event = Some(EV_error) THEN ErrorEvent(data)
             ELSE IF event.event = Some(EV_token) THEN ChatCompletionChunk(data)
             ELSE Skip

\* StreamingResponse._process_event
StreamingResponse_process_event(event) ==
    IF ~Truthy(event.data) THEN Skip
    ELSE LET data == json_loads(event.data[1])
         IN  IF data.kind = "JSONDecodeError"
             THEN [kind |-> "raise", chunk |-> NoChunk,
                   exc |-> [type |-> "StreamingError", reason |-> "Invalid JSON in SSE"]]
             ELSE IF event.event = Some(EV_error) THEN ErrorEvent(data)
             ELSE IF event.event = Some(EV_result) THEN ChatCompletionChunk(data)
             ELSE IF event.event = Some(EV_token) THEN ChatCompletionChunk(data)
             ELSE Skip

\* AsyncStreamingResponse._process_event
AsyncStreamingResponse_process_event(event) ==
    IF ~Truthy(event.data) THEN Skip
    ELSE LET data == json_loads(event.data[1])
         IN  IF data.kind = "JSONDecodeError"
             THEN [kind |-> "raise", chunk |-> NoChunk,
                   exc |-> [type |-> "StreamingError", reason |-> "Invalid JSON in SSE"]]
             ELSE IF event.event = Some(EV_error) THEN ErrorEvent(data)
             ELSE IF event.event = Some(EV_result) THEN ChatCompletionChunk(data)
             ELSE IF event.event = Some(EV_token) THEN ChatCompletionChunk(data)
             ELSE Skip

\* self._process_event(event), of the class that is iterated.
ProcessEvent(async, event) ==
    IF async THEN AsyncStreamingResponse_process_event(event)
    ELSE StreamingResponse_process_event(event)

\* The wire line handed to the parser with its own line end only.
LineChunkNewline(line) == line \o <<"\n">>

\* What the iteration hands to the parser for one wire line.
LineChunk(line) == line \o NLNL

\* The body of __iter__ / __aiter__ from where the generator stands (the
\* parser's buffer, the number of lines read) up to its next yield, raise or
\* the end of the lines.  While the buffer holds a terminated block the
\* suspended parse() call is resumed; otherwise the next line is read, a
\* falsy line is skipped, and any other is fed to parse() as LineChunk.
RECURSIVE RunToYield(_, _, _)
RunToYield(async, buf, p) ==
    IF Contains(buf, NLNL)
    THEN LET sp == SplitOnce(buf, NLNL)
             event == _parse_event(sp[1])
         IN  IF event = None THEN RunToYield(async, sp[2], p)
             ELSE LET r == ProcessEvent(async, event[1])
                  IN  IF r.kind = "none" THEN RunToYield(async, sp[2], p)
                      ELSE [kind |-> r.kind, chunk |-> r.chunk, exc |-> r.exc,
                            buffer |-> sp[2], pos |-> p]
    ELSE IF p >= Len(lines)
    THEN [kind |-> "exhausted", chunk |-> NoChunk, exc |-> NoError,
          buffer |-> buf, pos |-> p]
    ELSE IF lines[p + 1] = <<>> THEN RunToYield(async, buf, p + 1)
    ELSE RunToYield(async, BufferAppend(buf, LineChunk(lines[p + 1])), p + 1)

\* except Exception as e: raise StreamingError(f"Error during streaming: {e}")
WrapError(exc) ==
    [type |-> "StreamingError", cause |-> exc.type, reason |-> exc.reason]

\* A close that runs only when the generator leaves through its own code,
\* not when it is closed at a yield.
CloseUnlessAbandoned(how, n) == IF how = "abandoned" THEN n ELSE n + 1

\* finally: self.response.close()  /  await self.response.aclose()
FinallyClose(how, n) == n + 1

----------------------------------------------------------------------------
(* The frames a server writes.  A standard frame is an `event:` line, a    *)
(* `data:` line and a blank line, which a line-oriented transport yields   *)
(* as three lines.  A packed frame is one transport line that holds both   *)
(* fields, which only a transport that does not split at "\n" can yield.   *)

MaxFrames == 3

W_event_token == <<"e", "v", "e", "n", "t", ":", " ", "t", "o", "k", "e", "n">>

W_event_result == <<"e", "v", "e", "n", "t", ":", " ", "r", "e", "s", "u", "l", "t">>

W_event_error == <<"e", "v", "e", "n", "t", ":", " ", "e", "r", "r", "o", "r">>

W_event_ping == <<"e", "v", "e", "n", "t", ":", " ", "p", "i", "n", "g">>

W_data_a == <<"d", "a", "t", "a", ":", " ", "{", "m", "a", "c", "1", "s", "1", "}">>

W_data_b ==
    <<"d", "a", "t", "a", ":", " ", "{", "m", "b", "c", "2", "s", "1", "f", "1", "}">>

W_data_status == <<"d", "a", "t", "a", ":", " ", "{", "t", "r", "}">>

W_data_badjson == <<"d", "a", "t", "a", ":", " ", "{", "m", "a">>

\* The chunks the payloads {mac1s1} and {mbc2s1f1} stand for.
ChunkA == [message |-> "a", created |-> 1, seed |-> 1,
           finish_reason |-> None, usage |-> None]

ChunkB == [message |-> "b", created |-> 2, seed |-> 1,
           finish_reason |-> Some("1"), usage |-> None]

StdFrame(name, eventLine, dataLine, chunk) ==
    [name |-> name, framing |-> "standard",
     lines |-> <<eventLine, dataLine, <<>>>>, chunk |-> chunk]

PackedFrame(name, eventLine, dataLine, chunk) ==
    [name |-> name, framing |-> "packed",
     lines |-> <<eventLine \o <<"\n">> \o dataLine>>, chunk |-> chunk]

StandardFrames ==
    {StdFrame("token", W_event_token, W_data_a, ChunkA),
     StdFrame("result", W_event_result, W_data_b, ChunkB),
     StdFrame("error", W_event_error, W_data_status, NoChunk),
     StdFrame("ping", W_event_ping, W_data_a, NoChunk),
     StdFrame("badjson", W_event_token, W_data_badjson, NoChunk)}

PackedFrames ==
    {PackedFrame("token", W_event_token, W_data_a, ChunkA),
     PackedFrame("result", W_event_result, W_data_b, ChunkB),
     PackedFrame("error", W_event_error, W_data_status, NoChunk),
     PackedFrame("pingbad", W_event_ping, W_data_badjson, NoChunk),
     PackedFrame("badjson", W_event_token, W_data_badjson, NoChunk)}

Frames == StandardFrames \cup PackedFrames

RECURSIVE SeqsOfLen(_, _)
SeqsOfLen(S, k) ==
    IF k = 0 THEN {<<>>}
    ELSE {Append(q, x) : q \in SeqsOfLen(S, k - 1), x \in S}

Wires == UNION {SeqsOfLen(Frames, k) : k \in 0..MaxFrames}

RECURSIVE FrameLines(_)
FrameLines(fs) ==
    IF fs = <<>> THEN <<>> ELSE Head(fs).lines \o FrameLines(Tail(fs))

\* No parser run is in progress.
ParserIdle ==
    /\ pending = <<>>
    /\ fed = <<>>
    /\ yielded = <<>>
    /\ parsed = <<>>

\* StreamingResponse(response) / AsyncStreamingResponse(response): a fresh
\* parser, and a generator that has not run yet.
InitStream ==
    /\ buffer = <<>>
    /\ frames \in Wires
    /\ lines = FrameLines(frames)
    /\ pos = 0
    /\ is_async \in BOOLEAN
    /\ pc = "created"
    /\ chunks = <<>>
    /\ raised = None
    /\ closed = 0
    /\ ParserIdle
    /\ RetryIdle
    /\ SdkIdle

\* The consumer pulls: next(it) / await it.__anext__().  The generator runs
\* to its next yield, or leaves through `except`/`finally`.
StreamNext ==
    /\ pc \in {"created", "suspended"}
    /\ LET r == RunToYield(is_async, buffer, pos)
       IN  /\ buffer' = r.buffer
           /\ pos' = r.pos
           /\ CASE r.kind = "chunk" ->
                     /\ chunks' = Append(chunks, r.chunk)
                     /\ pc' = "suspended"
                     /\ UNCHANGED <<raised, closed>>
                [] r.kind = "raise" ->
                     /\ raised' = Some(WrapError(r.exc))
                     /\ closed' = FinallyClose("raised", closed)
                     /\ pc' = "raised"
                     /\ UNCHANGED chunks
                [] r.kind = "exhausted" ->
                     /\ closed' = FinallyClose("exhausted", closed)
                     /\ pc' = "exhausted"
                     /\ UNCHANGED <<chunks, raised>>
    /\ UNCHANGED <<frames, lines, is_async>>
    /\ UNCHANGED parserVars
    /\ UNCHANGED retryVars
    /\ UNCHANGED sdkVars

\* The consumer stops pulling at a yield: the generator is closed (close(),
\* aclose(), or its finalisation), GeneratorExit is thrown at the yield,
\* `except Exception` does not catch it, and `finally` runs.
StreamAbandon ==
    /\ pc = "suspended"
    /\ closed' = FinallyClose("abandoned", closed)
    /\ pc' = "abandoned"
    /\ UNCHANGED <<buffer, frames, lines, pos, is_async, chunks, raised>>
    /\ UNCHANGED parserVars
    /\ UNCHANGED retryVars
    /\ UNCHANGED sdkVars

\* The generator is discarded before its first pull: none of its code runs.
StreamDrop ==
    /\ pc = "created"
    /\ pc' = "dropped"
    /\ UNCHANGED <<buffer, frames, lines, pos, is_async, chunks, raised, closed>>
    /\ UNCHANGED parserVars
    /\ UNCHANGED retryVars
    /\ UNCHANGED sdkVars

NextStream == StreamNext \/ StreamAbandon \/ StreamDrop

SpecStream == InitStream /\ [][NextStream]_vars

----------------------------------------------------------------------------
(* Properties of the streaming iteration.                                  *)

\* The chunks of the token and result frames, in wire order.
RECURSIVE ExpectedChunks(_)
ExpectedChunks(fs) ==
    IF fs = <<>> THEN <<>>
    ELSE (IF Head(fs).name \in {"token", "result"} THEN <<Head(fs).chunk>> ELSE <<>>)
         \o ExpectedChunks(Tail(fs))

\* Every frame of the wire is in standard framing.
StandardWire == \A i \in 1..Len(frames) : frames[i].framing = "standard"

\* The iteration ran to an end of its own (it was not abandoned or dropped).
Finished == pc \in {"exhausted", "raised"}

\* C1 as stated: over a wire in standard framing whose frames all carry
\* valid payloads and none is an error frame, the iteration ends normally
\* and the chunks yielded are exactly the decoded payloads of the token and
\* result frames, one per frame, in wire order.
C1_ChunksAreTokenAndResultFrames ==
    (/\ Finished
     /\ StandardWire
     /\ \A i \in 1..Len(frames) : frames[i].name \in {"token", "result", "ping"})
        => /\ pc = "exhausted"
           /\ chunks = ExpectedChunks(frames)

\* The first error frame of the wire, 0 when it has none.
FirstError ==
    LET es == {i \in 1..Len(frames) : frames[i].name = "error"}
    IN  IF es = {} THEN 0 ELSE CHOOSE i \in es : \A j \in es : i <= j

\* C2 as stated: over a wire in standard framing with an error frame (the
\* frames before it valid), the iteration raises StreamingError at that
\* frame: nothing after the frame's data line is read, and no chunk of a
\* later frame is yielded.
C2_ErrorFrameRaises ==
    (/\ Finished
     /\ StandardWire
     /\ FirstError > 0
     /\ \A i \in 1..(FirstError - 1) : frames[i].name \in {"token", "result", "ping"})
        => /\ pc = "raised"
           /\ raised # None /\ raised[1].type = "StreamingError"
           /\ pos = 3 * (FirstError - 1) + 2
           /\ Len(chunks) <= Len(ExpectedChunks(SubSeq(frames, 1, FirstError - 1)))

\* C3: a started iteration closes the transport response exactly once on
\* each way out (the lines are exhausted, an error is raised, the consumer
\* stops pulling at a yield), and not before.
C3_ClosedExactlyOnce ==
    /\ pc \in {"exhausted", "raised", "abandoned"} => closed = 1
    /\ pc \in {"created", "suspended", "dropped"} => closed = 0

\* The consumer stopped after a chunk, with lines still unread.
C3_Witness ==
    /\ pc = "abandoned"
    /\ closed = 1
    /\ chunks # <<>>
    /\ pos < Len(lines)

----------------------------------------------------------------------------
(* retry_with_backoff, and the non-streaming call that uses it             *)
(* (ChatCompletions._create_sync, Embeddings.create).                      *)

MaxRetries == 8

initial_delay == 1

backoff_factor == 2

max_delay == 60

Min(a, b) == IF a <= b THEN a ELSE b

\* The exception types the operation raises (subclasses of Exception), and
\* the responses it returns.
ExceptionTypes == {"APIConnectionError", "RateLimitError"}

Responses == {"response"}

\* The wrapper used whatever max_retries is.
AlwaysRetryWrapper(n) == TRUE

\* if self.max_retries > 0: retry_with_backoff(...) else: _make_request()
UseRetryWrapper(n) == n > 0

\* A loop that runs once more than range(max_retries).
LoopOneMore(a, n) == a <= n

\* for attempt in range(max_retries)
LoopContinues(a, n) == a < n

\* if attempt < max_retries - 1
AttemptsRemain(a, n) == a < n - 1

\* The delay doubled with no cap.
NextDelayUncapped(d) == d * backoff_factor

\* delay = min(delay * backoff_factor, max_delay)
NextDelay(d) == Min(d * backoff_factor, max_delay)

\* The first exception kept instead of the last.
KeepFirstException(last, e) == IF last = None THEN Some(e) ELSE last

\* last_exception = e
KeepException(last, e) == Some(e)

Call(ok, value, exc) ==
    [kind |-> "call", ok |-> ok, value |-> value, exc |-> exc, delay |-> 0]

Sleep(d) ==
    [kind |-> "sleep", ok |-> FALSE, value |-> "", exc |-> [type |-> "", id |-> 0],
     delay |-> d]

Calls == SelectSeq(trace, LAMBDA e : e.kind = "call")

Sleeps == SelectSeq(trace, LAMBDA e : e.kind = "sleep")

\* A client object with some max_retries, about to issue a request.
InitRetry ==
    /\ max_retries \in 0..MaxRetries
    /\ rpc = "start"
    /\ attempt = 0
    /\ delay = 0
    /\ last_exception = None
    /\ trace = <<>>
    /\ outcome = NoOutcome
    /\ buffer = <<>>
    /\ ParserIdle
    /\ StreamIdle
    /\ SdkIdle

\* max_retries > 0: retry_with_backoff(_make_request, max_retries) is entered.
EnterRetry ==
    /\ rpc = "start"
    /\ UseRetryWrapper(max_retries)
    /\ rpc' = "loop"
    /\ attempt' = 0
    /\ delay' = initial_delay
    /\ last_exception' = None
    /\ UNCHANGED <<max_retries, trace, outcome>>
    /\ UNCHANGED <<buffer, parserVars, streamVars, sdkVars>>

\* Otherwise _make_request() is called directly, once.
DirectCall ==
    /\ rpc = "start"
    /\ ~UseRetryWrapper(max_retries)
    /\ \/ \E v \in Responses :
            /\ trace' = Append(trace, Call(TRUE, v, [type |-> "", id |-> 0]))
            /\ outcome' = [kind |-> "return", value |-> v, exc |-> [type |-> "", id |-> 0]]
            /\ rpc' = "returned"
       \/ \E t \in ExceptionTypes :
            LET e == [type |-> t, id |-> Len(Calls) + 1]
            IN  /\ trace' = Append(trace, Call(FALSE, "", e))
                /\ outcome' = [kind |-> "raise", value |-> "", exc |-> e]
                /\ rpc' = "raised"
    /\ UNCHANGED <<max_retries, attempt, delay, last_exception>>
    /\ UNCHANGED <<buffer, parserVars, streamVars, sdkVars>>

\* One iteration of the loop in which func() returns.
AttemptReturns ==
    /\ rpc = "loop"
    /\ LoopContinues(attempt, max_retries)
    /\ \E v \in Responses :
          /\ trace' = Append(trace, Call(TRUE, v, [type |-> "", id |-> 0]))
          /\ outcome' = [kind |-> "return", value |-> v, exc |-> [type |-> "", id |-> 0]]
    /\ rpc' = "returned"
    /\ UNCHANGED <<max_retries, attempt, delay, last_exception>>
    /\ UNCHANGED <<buffer, parserVars, streamVars, sdkVars>>

\* One iteration of the loop in which func() raises: the exception is kept,
\* and if attempts remain the loop sleeps and doubles the delay.
AttemptRaises ==
    /\ rpc = "loop"
    /\ LoopContinues(attempt, max_retries)
    /\ \E t \in ExceptionTypes :
          LET e == [type |-> t, id |-> Len(Calls) + 1]
          IN  /\ last_exception' = KeepException(last_exception, e)
              /\ IF AttemptsRemain(attempt, max_retries)
                 THEN /\ trace' = trace \o <<Call(FALSE, "", e), Sleep(delay)>>
                      /\ delay' = NextDelay(delay)
                 ELSE /\ trace' = Append(trace, Call(FALSE, "", e))
                      /\ delay' = delay
    /\ attempt' = attempt + 1
    /\ UNCHANGED <<max_retries, rpc, outcome>>
    /\ UNCHANGED <<buffer, parserVars, streamVars, sdkVars>>

\* The loop is over: raise last_exception (raising None is a TypeError).
RaiseLast ==
    /\ rpc = "loop"
    /\ ~LoopContinues(attempt, max_retries)
    /\ outcome' = [kind |-> "raise", value |-> "",
                   exc |-> IF last_exception = None
                           THEN [type |-> "TypeError", id |-> 0]
                           ELSE last_exception[1]]
    /\ rpc' = "raised"
    /\ UNCHANGED <<max_retries, attempt, delay, last_exception, trace>>
    /\ UNCHANGED <<buffer, parserVars, streamVars, sdkVars>>

NextRetry == EnterRetry \/ DirectCall \/ AttemptReturns \/ AttemptRaises \/ RaiseLast

SpecRetry == InitRetry /\ [][NextRetry]_vars

----------------------------------------------------------------------------
(* Properties of the retry driver.                                         *)

Ended == rpc \in {"returned", "raised"}

RECURSIVE Pow2(_)
Pow2(k) == IF k = 0 THEN 1 ELSE 2 * Pow2(k - 1)

\* C7: with max_retries = N >= 1 the operation is called at most N times;
\* a failed attempt is followed by another call exactly when fewer than N
\* attempts were made (the call ends raising only after N failed calls), and
\* the first successful attempt ends the call with that attempt's result.
C7_AtMostNCalls ==
    max_retries >= 1 =>
        /\ Len(Calls) <= max_retries
        /\ \A i \in 1..(Len(Calls) - 1) : ~Calls[i].ok
        /\ rpc = "loop" => \A i \in 1..Len(Calls) : ~Calls[i].ok
        /\ rpc = "raised" =>
              /\ Len(Calls) = max_retries
              /\ ~Calls[Len(Calls)].ok
        /\ rpc = "returned" =>
              /\ Calls[Len(Calls)].ok
              /\ outcome.kind = "return"
              /\ outcome.value = Calls[Len(Calls)].value

\* Of three allowed attempts the second succeeded, and no third was made.
C7_Witness ==
    /\ max_retries = 3
    /\ rpc = "returned"
    /\ Len(Calls) = 2
    /\ ~Calls[1].ok

\* C8: with the default schedule there is exactly one sleep between two
\* consecutive attempts and none after the last one, and the sleep before
\* the k-th retry lasts min(2^(k-1), 60) seconds.
C8_SleepSchedule ==
    max_retries >= 1 =>
        /\ \A i \in 1..Len(trace) :
              /\ trace[i].kind = "sleep" =>
                    i > 1 /\ trace[i - 1].kind = "call" /\ ~trace[i - 1].ok
              /\ (trace[i].kind = "call" /\ i > 1) => trace[i - 1].kind = "sleep"
        /\ \A k \in 1..Len(Sleeps) : Sleeps[k].delay = Min(Pow2(k - 1), 60)
        /\ Ended => /\ trace[Len(trace)].kind = "call"
                    /\ Len(Sleeps) = Len(Calls) - 1

\* Eight attempts were made: the seventh sleep hit the cap of 60 seconds.
C8_Witness ==
    /\ Ended
    /\ Len(Sleeps) = 7
    /\ Sleeps[6].delay = 32
    /\ Sleeps[7].delay = 60

\* C9: when every attempt fails, the exception that reaches the caller is
\* the one the final attempt raised, unchanged, and not one of an earlier
\* attempt.
C9_FinalExceptionPropagates ==
    (max_retries >= 1 /\ rpc = "raised") =>
        /\ outcome.kind = "raise"
        /\ outcome.exc = Calls[Len(Calls)].exc
        /\ \A i \in 1..(Len(Calls) - 1) : outcome.exc # Calls[i].exc

\* Three attempts failed, the first with another type than the last.
C9_Witness ==
    /\ max_retries = 3
    /\ rpc = "raised"
    /\ Len(Calls) = 3
    /\ Calls[1].exc.type = "APIConnectionError"
    /\ Calls[3].exc.type = "RateLimitError"
    /\ outcome.exc.type = "RateLimitError"

\* C10: with max_retries = 0 the operation is called exactly once, with no
\* sleep and outside retry_with_backoff, and its result or its failure is
\* what the caller gets.
C10_ZeroRetriesCallsOnce ==
    max_retries = 0 =>
        /\ rpc # "loop"
        /\ Sleeps = <<>>
        /\ Ended =>
              /\ Len(Calls) = 1
              /\ Calls[1].ok => outcome.kind = "return" /\ outcome.value = Calls[1].value
              /\ ~Calls[1].ok => outcome.kind = "raise" /\ outcome.exc = Calls[1].exc

\* The single direct call failed, and its exception is the outcome.
C10_Witness ==
    /\ max_retries = 0
    /\ rpc = "raised"
    /\ Len(Calls) = 1
    /\ outcome.exc = Calls[1].exc
    /\ outcome.exc.type = "RateLimitError"

----------------------------------------------------------------------------
(* ChatCompletions.create / acreate up to the hand-over to the transport:  *)
(* capability validation, request building, request validation.            *)

\* The three models of the capability table, and one it does not list.
Models == {"HCX-005", "HCX-007", "HCX-DASH-002", "HCX-003"}

\* capabilities.get(model, [])
model_caps(model) ==
    CASE model = "HCX-005" -> {"vision", "function_calling"}
      [] model = "HCX-007" -> {"thinking", "structured_output", "function_calling"}
      [] model = "HCX-DASH-002" -> {"function_calling"}
      [] OTHER -> {}

\* The feature names the library validates, and one it never names.
Features == {"thinking", "vision", "structured_output", "function_calling"}

FeatureNames == Features \cup {"audio"}

\* validate_model_capability: the type of the exception raised, "" when the
\* function returns.
validate_model_capability(model, feature) ==
    IF feature = "thinking" /\ "thinking" \notin model_caps(model) THEN "ValueError"
    ELSE IF feature = "vision" /\ "vision" \notin model_caps(model) THEN "ValueError"
    ELSE IF feature = "structured_output" /\ "structured_output" \notin model_caps(model)
         THEN "ValueError"
    ELSE IF feature = "function_calling" /\ "function_calling" \notin model_caps(model)
         THEN "ValueError"
    ELSE ""

\* get_max_tokens(model, thinking_effort); "" is a falsy effort.
get_max_tokens(model, thinking_effort) ==
    IF model = "HCX-007" /\ thinking_effort # ""
    THEN CASE thinking_effort = "none" -> 512
           [] thinking_effort = "low" -> 5120
           [] thinking_effort = "medium" -> 10240
           [] thinking_effort = "high" -> 20480
           [] OTHER -> 5120
    ELSE 4096

ThinkingEffort == {"none", "low", "medium", "high"}

\* The thinking arguments: a dict (empty, without an effort key, or with
\* one) or a ThinkingConfig object.
ThinkingArgs ==
    {[type |-> "dict", keys |-> {}, effort |-> ""],
     [type |-> "dict", keys |-> {"budget"}, effort |-> ""]}
    \cup {[type |-> "dict", keys |-> {"effort"}, effort |-> e] : e \in ThinkingEffort}
    \cup {[type |-> "ThinkingConfig", keys |-> {"effort"}, effort |-> e] :
             e \in ThinkingEffort}

\* Python truthiness of the thinking argument: None and {} are falsy.
TruthyThinking(t) == t # None /\ (t[1].type = "dict" => t[1].keys # {})

\* thinking.get("effort", "low") if isinstance(thinking, dict) else thinking.effort
EffortOf(t) ==
    IF t.type = "dict" THEN (IF "effort" \in t.keys THEN t.effort ELSE "low")
    ELSE t.effort

\* ThinkingConfig(**d): the effort field, "low" by default.
ThinkingConfig(t) == IF "effort" \in t.keys THEN t.effort ELSE "low"

\* The response_format arguments: {} (no schema) or one with a schema.
ResponseFormats == {[schema |-> FALSE], [schema |-> TRUE]}

\* The tools arguments, by the number of tools in the list.
ToolLists == {0, 1}

\* One message: a dict or a Message object, with a str content or a list
\* content holding one image item.  The item of a dict message is a dict;
\* Message coerces its items to ImageContentItem objects.
MessageArgs == [form : {"dict", "Message"}, content : {"str", "image"}]

ItemType(msg) == IF msg.form = "dict" THEN "dict" ELSE "ImageContentItem"

\* The scan of lines 143-153: a list content with an item that is a dict of
\* type image_url.
ScanFindsImage(msg) == msg.content = "image" /\ ItemType(msg) = "dict"

Kwargs ==
    [model : Models,
     message : MessageArgs,
     max_tokens : {None, Some(100)},
     max_completion_tokens : {None, Some(200)},
     thinking : {None} \cup {Some(t) : t \in ThinkingArgs},
     response_format : {None} \cup {Some(f) : f \in ResponseFormats},
     tools : {None} \cup {Some(n) : n \in ToolLists},
     stream : BOOLEAN]

\* Lines 134-153: the features validated, in the order of the calls.
RequestedFeatures(kw) ==
    (IF TruthyThinking(kw.thinking) THEN <<"thinking">> ELSE <<>>)
    \o (IF kw.response_format # None /\ kw.response_format[1].schema
        THEN <<"structured_output">> ELSE <<>>)
    \o (IF kw.tools # None /\ kw.tools[1] > 0 THEN <<"function_calling">> ELSE <<>>)
    \o (IF ScanFindsImage(kw.message) THEN <<"vision">> ELSE <<>>)

\* The first exception the validations raise, "" when all return.
RECURSIVE ValidateAll(_, _)
ValidateAll(model, feats) ==
    IF feats = <<>> THEN ""
    ELSE IF validate_model_capability(model, Head(feats)) # ""
         THEN validate_model_capability(model, Head(feats))
         ELSE ValidateAll(model, Tail(feats))

\* A token choice for HCX-007 that takes the thinking default before max_tokens.
CompletionTokensThinkingFirst(kw) ==
    IF kw.max_completion_tokens # None THEN kw.max_completion_tokens
    ELSE IF TruthyThinking(kw.thinking)
         THEN Some(get_max_tokens(kw.model, EffortOf(kw.thinking[1])))
    ELSE IF kw.max_tokens # None THEN kw.max_tokens
    ELSE Some(2048)

\* A token limit chosen after the thinking config was injected for a response
\* format: the budget of the injected effort instead of the fixed fallback.
CompletionTokensAfterInjection(kw) ==
    IF kw.max_completion_tokens # None THEN kw.max_completion_tokens
    ELSE IF kw.max_tokens # None THEN kw.max_tokens
    ELSE IF TruthyThinking(kw.thinking)
         THEN Some(get_max_tokens(kw.model, EffortOf(kw.thinking[1])))
    ELSE IF kw.response_format # None THEN Some(get_max_tokens(kw.model, "none"))
    ELSE Some(2048)

\* Lines 187-197: request_data["maxCompletionTokens"] for HCX-007.
CompletionTokens(kw) ==
    IF kw.max_completion_tokens # None THEN kw.max_completion_tokens
    ELSE IF kw.max_tokens # None THEN kw.max_tokens
    ELSE IF TruthyThinking(kw.thinking)
         THEN Some(get_max_tokens(kw.model, EffortOf(kw.thinking[1])))
    ELSE Some(2048)

\* Both token arguments copied into the request data as they come.
TokenFieldsAsGiven(kw) ==
    [maxTokens |-> kw.max_tokens, maxCompletionTokens |-> kw.max_completion_tokens]

\* Lines 185-203: the token fields of request_data.
TokenFields(kw) ==
    IF kw.model = "HCX-007"
    THEN [maxTokens |-> None, maxCompletionTokens |-> CompletionTokens(kw)]
    ELSE [maxTokens |-> IF kw.max_tokens # None THEN kw.max_tokens
                        ELSE kw.max_completion_tokens,
          maxCompletionTokens |-> None]

\* The effort "none" injected whenever a response format is given.
ThinkingFieldOverwritten(kw) ==
    IF kw.response_format # None /\ kw.model = "HCX-007" THEN Some([effort |-> "none"])
    ELSE IF kw.thinking # None THEN Some([effort |-> ThinkingConfig(kw.thinking[1])])
    ELSE None

\* Lines 213-220: request_data["thinking"], as ChatCompletionRequest reads it.
ThinkingField(kw) ==
    IF kw.thinking # None THEN Some([effort |-> ThinkingConfig(kw.thinking[1])])
    ELSE IF kw.response_format # None /\ kw.model = "HCX-007"
         THEN Some([effort |-> "none"])
    ELSE None

\* Lines 155-235: request_data.
RequestData(kw) ==
    [message |-> kw.message,
     maxTokens |-> TokenFields(kw).maxTokens,
     maxCompletionTokens |-> TokenFields(kw).maxCompletionTokens,
     thinking |-> ThinkingField(kw),
     tools |-> kw.tools,
     responseFormat |-> kw.response_format]

\* ChatCompletionRequest(**request_data): the type of the exception raised by
\* the validation, "" when the request object is built.
ChatCompletionRequest(data) ==
    IF data.maxCompletionTokens # None /\ data.maxTokens # None THEN "ValidationError"
    ELSE IF data.responseFormat # None /\ ~data.responseFormat[1].schema
         THEN "ValidationError"
    ELSE ""

\* create / acreate up to `if stream:`: the exception raised and where, or
\* the request built.
BuildRequest(kw) ==
    IF ValidateAll(kw.model, RequestedFeatures(kw)) # ""
    THEN [error |-> ValidateAll(kw.model, RequestedFeatures(kw)),
          stage |-> "capability", request |-> None]
    ELSE IF ChatCompletionRequest(RequestData(kw)) # ""
         THEN [error |-> ChatCompletionRequest(RequestData(kw)),
               stage |-> "request", request |-> None]
    ELSE [error |-> "", stage |-> "", request |-> Some(RequestData(kw))]

\* A create/acreate call with some arguments is about to run, or the
\* capability validator is about to be called on its own.
InitBuild ==
    /\ \/ kwargs \in {Some(kw) : kw \in Kwargs} /\ bstate = "called"
       \/ kwargs = None /\ bstate = "util"
    /\ request = None
    /\ error = ""
    /\ posts = 0
    /\ capcall = None
    /\ CallIdle
    /\ ClientIdle
    /\ BatchIdle
    /\ buffer = <<>>
    /\ ParserIdle
    /\ StreamIdle
    /\ RetryIdle

\* A create that posts the request at the call, for a streaming call too.
CreateBodyEager(async) ==
    /\ bstate = "called"
    /\ LET r == BuildRequest(kwargs[1])
       IN  /\ error' = r.error
           /\ request' = r.request
           /\ bstate' = IF r.error # "" THEN "raised_" \o r.stage
                        ELSE IF kwargs[1].stream THEN "iterator" ELSE "posted"
           /\ posts' = IF r.error = "" THEN posts + 1 ELSE posts
    /\ call_async' = async
    /\ UNCHANGED <<kwargs, capcall, endpoint, script>>
    /\ UNCHANGED <<buffer, parserVars, streamVars, retryVars, clientVars, batchVars>>

\* The body shared by create and acreate: a failure leaves before any post;
\* a streaming call returns the generator unstarted; otherwise the request
\* goes to _create_sync / _acreate_sync, which posts it.
CreateBody(async) ==
    /\ bstate = "called"
    /\ LET r == BuildRequest(kwargs[1])
       IN  /\ error' = r.error
           /\ request' = r.request
           /\ bstate' = IF r.error # "" THEN "raised_" \o r.stage
                        ELSE IF kwargs[1].stream THEN "iterator" ELSE "posted"
           /\ posts' = IF r.error = "" /\ ~kwargs[1].stream THEN posts + 1 ELSE posts
    /\ call_async' = async
    /\ UNCHANGED <<kwargs, capcall, endpoint, script>>
    /\ UNCHANGED <<buffer, parserVars, streamVars, retryVars, clientVars, batchVars>>

\* ChatCompletions.create(...)
Create == CreateBody(FALSE)

\* ChatCompletions.acreate(...)
ACreate == CreateBody(TRUE)

\* The first next() on the iterator create(stream=True) returned: the body
\* of _create_stream / _acreate_stream starts and posts the request.
Advance ==
    /\ bstate = "iterator"
    /\ bstate' = "posted"
    /\ posts' = posts + 1
    /\ UNCHANGED <<kwargs, request, error, capcall, callVars>>
    /\ UNCHANGED <<buffer, parserVars, streamVars, retryVars, clientVars, batchVars>>

\* raise_for_status_code(status_code, response): the type of the exception
\* it raises.
raise_for_status_code(status_code) ==
    IF status_code = 401 \/ status_code = 403 THEN "AuthenticationError"
    ELSE IF status_code = 404 THEN "InvalidRequestError"
    ELSE IF status_code = 429 THEN "RateLimitError"
    ELSE IF 400 <= status_code /\ status_code < 500 THEN "InvalidRequestError"
    ELSE IF 500 <= status_code /\ status_code < 600 THEN "ServerError"
    ELSE "HyperClovaError"

\* The HTTP status codes a failed streaming post is answered with.
StreamStatusCodes == {401, 404, 429, 500}

\* What the except clauses of _create_stream / _acreate_stream raise for a
\* ConnectError, a TimeoutException and an HTTPStatusError.
StreamErrors ==
    {"APIConnectionError", "APITimeoutError"}
        \cup {raise_for_status_code(c) : c \in StreamStatusCodes}

\* The first next() on the iterator, when the post fails: the transport
\* raises, or raise_for_status() does, and the except clauses translate it.
AdvanceFails ==
    /\ bstate = "iterator"
    /\ bstate' = "raised_advance"
    /\ posts' = posts + 1
    /\ error' \in StreamErrors
    /\ UNCHANGED <<kwargs, request, capcall, callVars>>
    /\ UNCHANGED <<buffer, parserVars, streamVars, retryVars, clientVars, batchVars>>

\* The iterator is dropped without a next(): the body of the generator never
\* starts.
Discard ==
    /\ bstate = "iterator"
    /\ bstate' = "discarded"
    /\ UNCHANGED <<kwargs, request, error, posts, capcall, callVars>>
    /\ UNCHANGED <<buffer, parserVars, streamVars, retryVars, clientVars, batchVars>>

\* The streaming response of a successful post is iterated to its end, which
\* closes the transport response.
Consume ==
    /\ bstate = "posted"
    /\ kwargs[1].stream
    /\ bstate' = "streamed"
    /\ closed' = FinallyClose("exhausted", closed)
    /\ UNCHANGED <<kwargs, request, error, posts, capcall, callVars>>
    /\ UNCHANGED <<frames, lines, pos, is_async, pc, chunks, raised>>
    /\ UNCHANGED <<buffer, parserVars, retryVars, clientVars, batchVars>>

\* validate_model_capability(model, feature) called on its own.
Validate ==
    /\ bstate = "util"
    /\ \E m \in Models, f \in FeatureNames :
          capcall' = Some([model |-> m, feature |-> f,
                           error |-> validate_model_capability(m, f)])
    /\ bstate' = "validated"
    /\ UNCHANGED <<kwargs, request, error, posts, callVars>>
    /\ UNCHANGED <<buffer, parserVars, streamVars, retryVars, clientVars, batchVars>>

NextBuild ==
    Create \/ ACreate \/ Advance \/ AdvanceFails \/ Discard \/ Consume \/ Validate

SpecBuild == InitBuild /\ [][NextBuild]_vars

----------------------------------------------------------------------------
(* Properties of the request builder and of the capability validator.      *)

\* C12: which token-limit field the built request carries depends only on
\* the model: for HCX-007 it carries maxCompletionTokens and not maxTokens;
\* for any other model it carries no maxCompletionTokens, a
\* max_completion_tokens given alone is carried as maxTokens, and with no
\* limit given the request carries none.
C12_TokenFieldByModel ==
    request # None =>
        LET kw == kwargs[1]
            r == request[1]
        IN  /\ kw.model = "HCX-007" =>
                  r.maxCompletionTokens # None /\ r.maxTokens = None
            /\ kw.model # "HCX-007" =>
                  /\ r.maxCompletionTokens = None
                  /\ (kw.max_tokens = None /\ kw.max_completion_tokens # None) =>
                        r.maxTokens = kw.max_completion_tokens
                  /\ (kw.max_tokens = None /\ kw.max_completion_tokens = None) =>
                        r.maxTokens = None

\* A request for HCX-005 given max_completion_tokens alone carries it as
\* maxTokens.
C12_Witness ==
    /\ request # None
    /\ kwargs[1].model = "HCX-005"
    /\ kwargs[1].max_tokens = None
    /\ kwargs[1].max_completion_tokens = Some(200)
    /\ request[1].maxTokens = Some(200)
    /\ request[1].maxCompletionTokens = None

\* C13 as stated: for HCX-007 the token limit of the built request is the
\* explicit max_completion_tokens if given, else the default of the thinking
\* effort if one is given, else 2048.
C13_ThreeSources ==
    (request # None /\ kwargs[1].model = "HCX-007") =>
        LET kw == kwargs[1]
            t == kw.thinking[1]
            table == [e \in ThinkingEffort |->
                         CASE e = "none" -> 512 [] e = "low" -> 5120
                           [] e = "medium" -> 10240 [] e = "high" -> 20480]
        IN  request[1].maxCompletionTokens =
                IF kw.max_completion_tokens # None THEN kw.max_completion_tokens
                ELSE IF kw.thinking # None /\ "effort" \in t.keys
                     THEN Some(table[t.effort])
                ELSE Some(2048)

\* C13: for HCX-007 the token limit of the built request is the explicit
\* max_completion_tokens if given, else the explicit max_tokens if given,
\* else, when a non-empty thinking config is given, the default of its effort
\* (none 512, low 5120, medium 10240, high 20480; low when it names none),
\* else 2048.
C13_FourSources ==
    (request # None /\ kwargs[1].model = "HCX-007") =>
        LET kw == kwargs[1]
            t == kw.thinking[1]
            table == [e \in ThinkingEffort |->
                         CASE e = "none" -> 512 [] e = "low" -> 5120
                           [] e = "medium" -> 10240 [] e = "high" -> 20480]
        IN  request[1].maxCompletionTokens =
                IF kw.max_completion_tokens # None THEN kw.max_completion_tokens
                ELSE IF kw.max_tokens # None THEN kw.max_tokens
                ELSE IF kw.thinking # None /\ ~(t.type = "dict" /\ t.keys = {})
                     THEN Some(table[IF "effort" \in t.keys THEN t.effort ELSE "low"])
                ELSE Some(2048)

\* A request for HCX-007 given max_tokens and a high thinking effort carries
\* max_tokens as its limit.
C13_Witness ==
    /\ request # None
    /\ kwargs[1].model = "HCX-007"
    /\ kwargs[1].max_completion_tokens = None
    /\ kwargs[1].max_tokens = Some(100)
    /\ kwargs[1].thinking # None
    /\ kwargs[1].thinking[1].effort = "high"
    /\ request[1].maxCompletionTokens = Some(100)

\* C14: a create/acreate call given both max_tokens and max_completion_tokens
\* fails with InvalidRequestError, whatever the model, and nothing is posted.
C14_BothLimitsRejected ==
    (kwargs # None /\ bstate # "called"
        /\ kwargs[1].max_tokens # None /\ kwargs[1].max_completion_tokens # None) =>
        /\ error = "InvalidRequestError"
        /\ request = None
        /\ posts = 0

\* C15: validate_model_capability(model, feature) raises exactly when the
\* capability table does not list the feature for the model.
C15_ValidateIffListed ==
    capcall # None =>
        (capcall[1].error # "" <=> capcall[1].feature \notin model_caps(capcall[1].model))

\* C16: a create/acreate call whose message holds an image item, for a model
\* without vision, fails in capability validation: no request is built and
\* nothing is posted.
C16_ImageNeedsVision ==
    (kwargs # None /\ bstate # "called"
        /\ kwargs[1].message.content = "image"
        /\ "vision" \notin model_caps(kwargs[1].model)) =>
        /\ bstate = "raised_capability"
        /\ request = None
        /\ posts = 0

\* C17: in a built request, a thinking config given by the caller is carried
\* with the effort it names (low when it names none); with none given, a
\* response format on HCX-007 makes the request carry effort "none", and a
\* request for another model carries no thinking config.
C17_ThinkingInjection ==
    request # None =>
        LET kw == kwargs[1]
            t == kw.thinking[1]
        IN  /\ kw.thinking # None =>
                  request[1].thinking =
                      Some([effort |-> IF "effort" \in t.keys THEN t.effort ELSE "low"])
            /\ (kw.thinking = None /\ kw.response_format # None /\ kw.model = "HCX-007") =>
                  request[1].thinking = Some([effort |-> "none"])
            /\ (kw.thinking = None /\ kw.model # "HCX-007") =>
                  request[1].thinking = None

\* A request for HCX-007 with a response format and no thinking config was
\* built and posted by acreate with the effort "none".
C17_Witness ==
    /\ request # None
    /\ kwargs[1].model = "HCX-007"
    /\ kwargs[1].response_format # None
    /\ kwargs[1].thinking = None
    /\ request[1].thinking = Some([effort |-> "none"])
    /\ bstate = "posted"
    /\ call_async

----------------------------------------------------------------------------
(* The non-streaming exchange: ChatCompletions._create_sync/_acreate_sync  *)
(* and Embeddings.create/acreate over a transport whose answers are given. *)

MaxCallRetries == 2

\* client.post raised a transport exception of type x.
TransportError(x) ==
    [transport |-> x, status |-> 0, json |-> FALSE, envelope |-> FALSE,
     code |-> <<>>, result |-> "None"]

\* client.post returned a response: its HTTP status, whether its body is
\* JSON, whether the JSON validates as an APIResponse, the envelope's
\* status.code, and its result ("valid", "invalid" for the response schema,
\* or "None").
HttpResponse(status, json, envelope, code, result) ==
    [transport |-> "response", status |-> status, json |-> json,
     envelope |-> envelope, code |-> code, result |-> result]

Code_20000 == <<"2", "0", "0", "0", "0">>

Code_40100 == <<"4", "0", "1", "0", "0">>

Code_40400 == <<"4", "0", "4", "0", "0">>

Code_42901 == <<"4", "2", "9", "0", "1">>

Code_50000 == <<"5", "0", "0", "0", "0">>

Code_text == <<"E", "4", "2", "9">>

Replies ==
    {TransportError("ConnectError"), TransportError("TimeoutException"),
     TransportError("ReadError"),
     HttpResponse(401, TRUE, TRUE, Code_40100, "None"),
     HttpResponse(404, TRUE, TRUE, Code_40400, "None"),
     HttpResponse(429, TRUE, TRUE, Code_42901, "None"),
     HttpResponse(500, TRUE, TRUE, Code_50000, "None"),
     HttpResponse(503, FALSE, FALSE, <<>>, "None"),
     HttpResponse(200, FALSE, FALSE, <<>>, "None"),
     HttpResponse(200, TRUE, FALSE, <<>>, "None"),
     HttpResponse(200, TRUE, TRUE, Code_20000, "valid"),
     HttpResponse(200, TRUE, TRUE, Code_20000, "invalid"),
     HttpResponse(200, TRUE, TRUE, Code_20000, "None"),
     HttpResponse(200, TRUE, TRUE, Code_40100, "None"),
     HttpResponse(200, TRUE, TRUE, Code_42901, "None"),
     HttpResponse(200, TRUE, TRUE, Code_50000, "None"),
     HttpResponse(200, TRUE, TRUE, Code_text, "None")}

\* The exception classes of hyperclova/exceptions.py.
HyperClovaErrors ==
    {"HyperClovaError", "AuthenticationError", "APIConnectionError",
     "APITimeoutError", "RateLimitError", "InvalidRequestError", "ServerError",
     "StreamingError", "ModelNotSupportedError", "TokenLimitExceededError"}

\* response.raise_for_status() returns for a 2xx status only.
IsSuccess(status) == 200 <= status /\ status <= 299

Returned(v) == [kind |-> "return", value |-> v, type |-> ""]

Raised(t) == [kind |-> "raise", value |-> "", type |-> t]

\* The try block of one exchange with its except clauses.
Exchange(r) ==
    IF r.transport = "ConnectError" THEN Raised("APIConnectionError")
    ELSE IF r.transport = "TimeoutException" THEN Raised("APITimeoutError")
    ELSE IF r.transport # "response" THEN Raised(r.transport)
    ELSE IF ~IsSuccess(r.status)
         THEN (IF r.json THEN Raised(raise_for_status_code(r.status))
               ELSE Raised("JSONDecodeError"))
    ELSE IF ~r.json THEN Raised("JSONDecodeError")
    ELSE IF ~r.envelope THEN Raised("ValidationError")
    ELSE IF r.code # Code_20000
         THEN (IF ParseInt(r.code) = None THEN Raised("ValueError")
               ELSE Raised(raise_for_status_code(ParseInt(r.code)[1])))
    ELSE IF r.result = "None" THEN Raised("TypeError")
    ELSE IF r.result = "invalid" THEN Raised("ValidationError")
    ELSE Returned("response")

\* What the transport answers to the i-th post (the last answer of the
\* script again, should there be more posts than answers).
ReplyTo(rs, i) == rs[IF i <= Len(rs) THEN i ELSE Len(rs)]

\* _make_request() called as the i-th call of the exchange.
_make_request(rs, i) == Exchange(ReplyTo(rs, i))

NoExc == [type |-> "", id |-> 0]

\* retry_with_backoff(_make_request, max_retries=n) from the loop's
\* iteration a on: the final values of its variables, the calls and sleeps
\* made, and what it returns or raises.
RECURSIVE retry_with_backoff(_, _, _, _, _, _, _)
retry_with_backoff(rs, n, a, d, last, tr, made) ==
    IF ~LoopContinues(a, n)
    THEN [attempt |-> a, delay |-> d, last_exception |-> last, trace |-> tr,
          outcome |-> [kind |-> "raise", value |-> "",
                       exc |-> IF last = None THEN [type |-> "TypeError", id |-> 0]
                               ELSE last[1]]]
    ELSE LET res == _make_request(rs, made + 1)
             e == [type |-> res.type, id |-> made + 1]
         IN  IF res.kind = "return"
             THEN [attempt |-> a, delay |-> d, last_exception |-> last,
                   trace |-> Append(tr, Call(TRUE, res.value, NoExc)),
                   outcome |-> [kind |-> "return", value |-> res.value, exc |-> NoExc]]
             ELSE IF AttemptsRemain(a, n)
                  THEN retry_with_backoff(rs, n, a + 1, NextDelay(d),
                                          KeepException(last, e),
                                          tr \o <<Call(FALSE, "", e), Sleep(d)>>,
                                          made + 1)
                  ELSE retry_with_backoff(rs, n, a + 1, d, KeepException(last, e),
                                          Append(tr, Call(FALSE, "", e)), made + 1)

\* One exchange outside retry_with_backoff.
SingleExchange(rs) ==
    LET res == Exchange(ReplyTo(rs, 1))
        e == [type |-> res.type, id |-> 1]
    IN  IF res.kind = "return"
        THEN [attempt |-> 0, delay |-> 0, last_exception |-> None,
              trace |-> <<Call(TRUE, res.value, NoExc)>>,
              outcome |-> [kind |-> "return", value |-> res.value, exc |-> NoExc]]
        ELSE [attempt |-> 0, delay |-> 0, last_exception |-> None,
              trace |-> <<Call(FALSE, "", e)>>,
              outcome |-> [kind |-> "raise", value |-> "", exc |-> e]]

\* _create_sync / Embeddings.create: through retry_with_backoff when
\* max_retries > 0, else one direct _make_request().
SyncRequest(rs, n) ==
    IF UseRetryWrapper(n)
    THEN retry_with_backoff(rs, n, 0, initial_delay, None, <<>>, 0)
    ELSE SingleExchange(rs)

\* _acreate_sync / Embeddings.acreate: one awaited post, whatever max_retries.
AsyncRequest(rs, n) == SingleExchange(rs)

RECURSIVE Scripts(_)
Scripts(k) ==
    IF k = 0 THEN {<<>>} ELSE {Append(rs, r) : rs \in Scripts(k - 1), r \in Replies}

\* A client object with some max_retries, about to issue a non-streaming
\* request to a transport with some answers ready.
InitCall ==
    /\ max_retries \in 0..MaxCallRetries
    /\ script \in Scripts(IF max_retries = 0 THEN 1 ELSE max_retries)
    /\ endpoint = ""
    /\ call_async = FALSE
    /\ rpc = "start"
    /\ attempt = 0
    /\ delay = 0
    /\ last_exception = None
    /\ trace = <<>>
    /\ outcome = NoOutcome
    /\ buffer = <<>>
    /\ ParserIdle
    /\ StreamIdle
    /\ BuildIdle
    /\ ClientIdle
    /\ BatchIdle

\* The whole call: the request is issued, and the caller gets r.outcome.
Request(ep, async, r) ==
    /\ rpc = "start"
    /\ endpoint' = ep
    /\ call_async' = async
    /\ attempt' = r.attempt
    /\ delay' = r.delay
    /\ last_exception' = r.last_exception
    /\ trace' = r.trace
    /\ outcome' = r.outcome
    /\ rpc' = IF r.outcome.kind = "return" THEN "returned" ELSE "raised"
    /\ UNCHANGED <<max_retries, script>>
    /\ UNCHANGED <<buffer, parserVars, streamVars, buildVars, clientVars, batchVars>>

\* ChatCompletions._create_sync(model, request, request_id)
ChatCreateSync == Request("chat", FALSE, SyncRequest(script, max_retries))

\* await ChatCompletions._acreate_sync(model, request, request_id)
ChatACreateSync == Request("chat", TRUE, AsyncRequest(script, max_retries))

\* Embeddings.create(text)
EmbeddingsCreate == Request("embedding", FALSE, SyncRequest(script, max_retries))

\* await Embeddings.acreate(text)
EmbeddingsACreate == Request("embedding", TRUE, AsyncRequest(script, max_retries))

NextCall == ChatCreateSync \/ ChatACreateSync \/ EmbeddingsCreate \/ EmbeddingsACreate

SpecCall == InitCall /\ [][NextCall]_vars

----------------------------------------------------------------------------
(* Properties of the non-streaming exchange.                               *)

\* C11: a failed attempt of a non-streaming acreate is retried on the
\* schedule of the synchronous call: with max_retries = N >= 1 the call ends
\* raising only after N attempts, with one suspension between consecutive
\* attempts lasting min(2^(k-1), 60) seconds before the k-th retry.
C11_AsyncRetries ==
    (call_async /\ Ended /\ max_retries >= 1) =>
        /\ outcome.kind = "raise" => Len(Calls) = max_retries
        /\ Len(Sleeps) = Len(Calls) - 1
        /\ \A k \in 1..Len(Sleeps) : Sleeps[k].delay = Min(Pow2(k - 1), 60)

\* An envelope with a status.code other than "20000".
FailureEnvelope(r) ==
    r.transport = "response" /\ r.json /\ r.envelope /\ r.code # Code_20000

\* C18: every attempt answered by an envelope whose status.code is not
\* "20000" raises AuthenticationError, InvalidRequestError, RateLimitError or
\* ServerError, and returns no response.
C18_EnvelopeFailureRaisesTaxonomy ==
    \A i \in 1..Len(Calls) :
        FailureEnvelope(ReplyTo(script, i)) =>
            /\ ~Calls[i].ok
            /\ Calls[i].exc.type \in {"AuthenticationError", "InvalidRequestError",
                                      "RateLimitError", "ServerError"}

\* C19: a non-streaming call that ended either returned a response or raised
\* an error of the HyperClovaError taxonomy.
C19_TypedOutcome ==
    (endpoint # "" /\ Ended) =>
        \/ outcome.kind = "return" /\ outcome.value = "response"
        \/ outcome.kind = "raise" /\ outcome.exc.type \in HyperClovaErrors

----------------------------------------------------------------------------
(* The HyperClova object, its lazily created sub-clients and their HTTP    *)
(* clients (client.py, and the client/async_client properties and          *)
(* close/aclose of ChatCompletions and Embeddings).                        *)

MaxHandles == 3

SubClients == {"chat", "embedding"}

Modes == {"sync", "async"}

\* self._client = None; self._async_client = None
NoClients == [sub \in SubClients |-> [sync |-> 0, async |-> 0]]

\* httpx.Client(...) / httpx.AsyncClient(...): a new handle, open.
NewHandle(sub, mode) == [sub |-> sub, mode |-> mode, closes |-> 0]

IsOpen(h) == h.closes = 0

\* A property that creates a new handle at every access.
GetClientAlways(st, sub, mode) ==
    [clients |-> [st.clients EXCEPT ![sub][mode] = Len(st.handles) + 1],
     handles |-> Append(st.handles, NewHandle(sub, mode))]

\* The client / async_client property: the handle in the field, created
\* first when the field is None.
GetClient(st, sub, mode) ==
    IF st.clients[sub][mode] # 0 THEN st
    ELSE [clients |-> [st.clients EXCEPT ![sub][mode] = Len(st.handles) + 1],
          handles |-> Append(st.handles, NewHandle(sub, mode))]

\* A close() that forgets the handle without closing it.
DropField(st, sub, mode) ==
    [clients |-> [st.clients EXCEPT ![sub][mode] = 0], handles |-> st.handles]

\* A close() that closes the handle and keeps it in the field.
CloseKeepField(st, sub, mode) ==
    IF st.clients[sub][mode] = 0 THEN st
    ELSE [clients |-> st.clients,
          handles |-> [st.handles EXCEPT ![st.clients[sub][mode]].closes = @ + 1]]

\* if self._client: self._client.close(); self._client = None   (and the
\* same for _async_client with aclose()).
CloseField(st, sub, mode) ==
    IF st.clients[sub][mode] = 0 THEN st
    ELSE [clients |-> [st.clients EXCEPT ![sub][mode] = 0],
          handles |-> [st.handles EXCEPT ![st.clients[sub][mode]].closes = @ + 1]]

\* ChatCompletions.close() / Embeddings.close(): the sync client only.
sub_close(st, sub) == CloseField(st, sub, "sync")

\* ChatCompletions.aclose() / Embeddings.aclose(): both clients.
sub_aclose(st, sub) == CloseField(CloseField(st, sub, "sync"), sub, "async")

\* The sub-clients that exist, as HyperClova.close()/aclose() see them:
\* a truthy _chat has its completions created by the property access.
ExistingSubs ==
    (IF _chat # "None" THEN {"chat"} ELSE {})
    \cup (IF _embeddings # "None" THEN {"embedding"} ELSE {})

\* HyperClova(api_key=...): no sub-client and no HTTP client yet.
InitClient ==
    /\ _chat = "None"
    /\ _embeddings = "None"
    /\ clients = NoClients
    /\ handles = <<>>
    /\ last_op = "init"
    /\ CallIdle
    /\ BuildIdle
    /\ BatchIdle
    /\ buffer = <<>>
    /\ ParserIdle
    /\ StreamIdle
    /\ RetryIdle

\* client.chat, with no further access: the namespace is created.
GetChat ==
    /\ _chat = "None"
    /\ _chat' = "ChatNamespace"
    /\ last_op' = "chat"
    /\ UNCHANGED <<_embeddings, clients, handles>>
    /\ UNCHANGED <<buffer, parserVars, streamVars, retryVars, callVars, buildVars, batchVars>>

\* A request through client.chat.completions (create or acreate) or through
\* client.embeddings, run to its end: the sub-client is created on first
\* access, and the post goes through its client / async_client property.
ClientRequest ==
    \E sub \in SubClients, mode \in Modes :
        LET st == GetClient([clients |-> clients, handles |-> handles], sub, mode)
        IN  /\ Len(st.handles) <= MaxHandles
            /\ clients' = st.clients
            /\ handles' = st.handles
            /\ _chat' = IF sub = "chat" THEN "ChatCompletions" ELSE _chat
            /\ _embeddings' = IF sub = "embedding" THEN "Embeddings" ELSE _embeddings
            /\ last_op' = "request"
            /\ UNCHANGED <<buffer, parserVars, streamVars, retryVars, callVars, buildVars, batchVars>>

\* HyperClova.close()
ClientClose ==
    /\ LET st0 == [clients |-> clients, handles |-> handles]
           st1 == IF "chat" \in ExistingSubs THEN sub_close(st0, "chat") ELSE st0
           st2 == IF "embedding" \in ExistingSubs THEN sub_close(st1, "embedding") ELSE st1
       IN  /\ clients' = st2.clients
           /\ handles' = st2.handles
    /\ _chat' = IF _chat # "None" THEN "ChatCompletions" ELSE _chat
    /\ last_op' = "close"
    /\ UNCHANGED _embeddings
    /\ UNCHANGED <<buffer, parserVars, streamVars, retryVars, callVars, buildVars, batchVars>>

\* await HyperClova.aclose()
ClientAClose ==
    /\ LET st0 == [clients |-> clients, handles |-> handles]
           st1 == IF "chat" \in ExistingSubs THEN sub_aclose(st0, "chat") ELSE st0
           st2 == IF "embedding" \in ExistingSubs THEN sub_aclose(st1, "embedding") ELSE st1
       IN  /\ clients' = st2.clients
           /\ handles' = st2.handles
    /\ _chat' = IF _chat # "None" THEN "ChatCompletions" ELSE _chat
    /\ last_op' = "aclose"
    /\ UNCHANGED _embeddings
    /\ UNCHANGED <<buffer, parserVars, streamVars, retryVars, callVars, buildVars, batchVars>>

\* close() called on the sub-client itself: client.chat.completions.close()
\* or client.embeddings.close() (the property access creates the sub-client).
SubClose ==
    \E sub \in SubClients :
        LET st == sub_close([clients |-> clients, handles |-> handles], sub)
        IN  /\ clients' = st.clients
            /\ handles' = st.handles
            /\ _chat' = IF sub = "chat" THEN "ChatCompletions" ELSE _chat
            /\ _embeddings' = IF sub = "embedding" THEN "Embeddings" ELSE _embeddings
            /\ last_op' = "sub_close"
            /\ UNCHANGED <<buffer, parserVars, streamVars, retryVars, callVars, buildVars, batchVars>>

\* await aclose() called on the sub-client itself.
SubAClose ==
    \E sub \in SubClients :
        LET st == sub_aclose([clients |-> clients, handles |-> handles], sub)
        IN  /\ clients' = st.clients
            /\ handles' = st.handles
            /\ _chat' = IF sub = "chat" THEN "ChatCompletions" ELSE _chat
            /\ _embeddings' = IF sub = "embedding" THEN "Embeddings" ELSE _embeddings
            /\ last_op' = "sub_aclose"
            /\ UNCHANGED <<buffer, parserVars, streamVars, retryVars, callVars, buildVars, batchVars>>

NextClient ==
    GetChat \/ ClientRequest \/ ClientClose \/ ClientAClose \/ SubClose \/ SubAClose

SpecClient == InitClient /\ [][NextClient]_vars

----------------------------------------------------------------------------
(* Properties of the client's HTTP clients.                                *)

OpenHandles(sub, mode) ==
    {i \in 1..Len(handles) :
        handles[i].sub = sub /\ handles[i].mode = mode /\ IsOpen(handles[i])}

\* Every open handle is the one its sub-client holds in the field of its mode.
OneOpenPerMode ==
    \A sub \in SubClients, mode \in Modes :
        /\ Cardinality(OpenHandles(sub, mode)) <= 1
        /\ \A i \in OpenHandles(sub, mode) : clients[sub][mode] = i

\* A step creates a handle only as a request that finds no open handle of
\* its sub-client and mode, and then exactly one.
CreatesOnFirstUse ==
    handles' # handles =>
        \/ Len(handles') = Len(handles)
        \/ /\ Len(handles') = Len(handles) + 1
           /\ last_op' = "request"
           /\ IsOpen(handles'[Len(handles')])
           /\ OpenHandles(handles'[Len(handles')].sub, handles'[Len(handles')].mode) = {}

\* C21: whatever requests, close and aclose calls were made, a sub-client has
\* at most one open HTTP client per mode, the one in its field; a handle is
\* created only by a request of its mode that finds none, one at a time.
C21_OneHandlePerMode == []OneOpenPerMode /\ [][CreatesOnFirstUse]_vars

\* After aclose() a second asynchronous client of the chat sub-client is
\* open, the first being closed, next to an open synchronous one.
C21_Witness ==
    /\ Len(handles) = 3
    /\ handles[1].sub = "chat" /\ handles[1].mode = "async" /\ ~IsOpen(handles[1])
    /\ handles[2].sub = "chat" /\ handles[2].mode = "async" /\ IsOpen(handles[2])
    /\ handles[3].sub = "chat" /\ handles[3].mode = "sync" /\ IsOpen(handles[3])
    /\ clients["chat"]["async"] = 2

\* No handle was closed twice, and no field holds a closed handle.
ClosedOnceAndForgotten ==
    /\ \A i \in 1..Len(handles) : handles[i].closes <= 1
    /\ \A sub \in SubClients, mode \in Modes :
          clients[sub][mode] # 0 => IsOpen(handles[clients[sub][mode]])

\* A close() or aclose() that finds no open handle changes nothing.
CloseOfNothingIsNoOp ==
    (last_op' \in {"close", "aclose", "sub_close", "sub_aclose"}
        /\ \A i \in 1..Len(handles) : ~IsOpen(handles[i])) =>
        UNCHANGED <<clients, handles>>

\* C27: over any sequence of close/aclose calls and requests each handle is
\* closed at most once, a close with no open handle does nothing, and a
\* field never holds a closed handle, so that a request after close()
\* creates a fresh handle.
C27_CloseIdempotent == []ClosedOnceAndForgotten /\ [][CloseOfNothingIsNoOp]_vars

\* A request after two close() calls runs on a fresh synchronous client of
\* the embedding sub-client, the first having been closed once.
C27_Witness ==
    /\ last_op = "request"
    /\ Len(handles) = 2
    /\ handles[1].sub = "embedding" /\ handles[1].mode = "sync"
    /\ handles[1].closes = 1
    /\ handles[2].sub = "embedding" /\ handles[2].mode = "sync" /\ IsOpen(handles[2])
    /\ clients["embedding"]["sync"] = 2

----------------------------------------------------------------------------
(* raise_for_status_code called on its own (hyperclova/exceptions.py).     *)

MaxStatusCode == 600

StatusCodes == (-1)..MaxStatusCode

\* The response argument, a dict, by what its "status" member is: absent,
\* an object (with code and message), a number, or null.
ResponseBodies == [status : {"absent", "object", "number", "null"}]

\* raise_for_status_code(status_code, response): the exception raised, with
\* the status_code and response it carries.  Line 70 calls .get on the
\* "status" member before the status code is looked at.
StatusError(status_code, response) ==
    IF response.status \in {"number", "null"}
    THEN [type |-> "AttributeError", status_code |-> None, response |-> None]
    ELSE [type |-> raise_for_status_code(status_code),
          status_code |-> Some(status_code), response |-> Some(response)]

InitUtil ==
    /\ kwargs = None
    /\ bstate = "util"
    /\ request = None
    /\ error = ""
    /\ posts = 0
    /\ capcall = None
    /\ CallIdle
    /\ ClientIdle
    /\ BatchIdle
    /\ buffer = <<>>
    /\ ParserIdle
    /\ StreamIdle
    /\ RetryIdle

\* raise_for_status_code(c, body) called with some status code and body.
RaiseForStatus ==
    /\ bstate = "util"
    /\ \E c \in StatusCodes, body \in ResponseBodies :
          capcall' = Some([status_code |-> c, response |-> body,
                           error |-> StatusError(c, body)])
    /\ bstate' = "raised_status"
    /\ UNCHANGED <<kwargs, request, error, posts, callVars>>
    /\ UNCHANGED <<buffer, parserVars, streamVars, retryVars, clientVars, batchVars>>

NextUtil == RaiseForStatus

SpecUtil == InitUtil /\ [][NextUtil]_vars

\* C22: raise_for_status_code raises for every integer, AuthenticationError
\* for 401 and 403, RateLimitError for 429, InvalidRequestError for any other
\* 4xx, ServerError for any 5xx, and the error carries the status code and
\* the response body given.
C22_StatusTaxonomy ==
    capcall # None =>
        LET c == capcall[1].status_code
            err == capcall[1].error
        IN  /\ err.type # ""
            /\ c \in {401, 403} => err.type = "AuthenticationError"
            /\ c = 429 => err.type = "RateLimitError"
            /\ (400 <= c /\ c < 500 /\ c \notin {401, 403, 429}) =>
                  err.type = "InvalidRequestError"
            /\ (500 <= c /\ c < 600) => err.type = "ServerError"
            /\ err.status_code = Some(c)
            /\ err.response = Some(capcall[1].response)

----------------------------------------------------------------------------
(* Properties of the stream decoder, frame by frame.                       *)

\* The whole iteration of the lines by one of the two classes, from a fresh
\* parser: the chunks yielded, how it ends, the error raised and the number
\* of lines read by then.
RECURSIVE Drain(_, _, _, _)
Drain(async, buf, p, acc) ==
    LET r == RunToYield(async, buf, p)
    IN  IF r.kind = "chunk" THEN Drain(async, r.buffer, r.pos, Append(acc, r.chunk))
        ELSE [chunks |-> acc,
              pc |-> IF r.kind = "raise" THEN "raised" ELSE "exhausted",
              raised |-> IF r.kind = "raise" THEN Some(WrapError(r.exc)) ELSE None,
              pos |-> r.pos]

Iterate(async) == Drain(async, <<>>, 0, <<>>)

\* C23: the lines iterated through StreamingResponse and through
\* AsyncStreamingResponse give the same chunks, end at the same line and
\* raise the same error; the iteration that ran to its end is the one the
\* other class gives.
C23_SyncAsyncSameOutcome ==
    /\ Iterate(TRUE) = Iterate(FALSE)
    /\ Finished =>
          [chunks |-> chunks, pc |-> pc, raised |-> raised, pos |-> pos]
              = Iterate(~is_async)

\* An asynchronous iteration yielded the chunks of a token and a result frame
\* and then raised.
C23_Witness ==
    /\ is_async
    /\ pc = "raised"
    /\ chunks = <<ChunkA, ChunkB>>
    /\ raised # None

\* The frames the parser emits for one wire line.
LineEvents(line) ==
    IF line = <<>> THEN <<>> ELSE parse(<<>>, LineChunk(line)).events

\* The frame's event name is error, result or token.
Named(ev) == ev.event \in {Some(EV_error), Some(EV_result), Some(EV_token)}

ValidJson(ev) == json_loads(ev.data[1]).kind # "JSONDecodeError"

\* The lines read so far that carry a frame with one of the three names.
NamedLinesRead ==
    {i \in 1..pos : \E k \in 1..Len(LineEvents(lines[i])) : Named(LineEvents(lines[i])[k])}

\* C24 as stated: a frame whose event name is none of error, result and
\* token (a frame with no event name included) is skipped whatever its data
\* payload is: the iteration never raises at a line whose frame has no such
\* name, and every chunk yielded comes from a line whose frame has one.
C24_OtherNamesSkipped ==
    /\ pc = "raised" => pos \in NamedLinesRead
    /\ Len(chunks) <= Cardinality(NamedLinesRead)

\* What one wire line, parsed as a block of its own, makes the iteration do.
LineResult(async, line) ==
    IF LineEvents(line) = <<>> THEN Skip
    ELSE ProcessEvent(async, LineEvents(line)[1])

\* The chunks of the first n lines, each parsed as a block of its own.
RECURSIVE PerLineChunks(_, _)
PerLineChunks(async, n) ==
    IF n = 0 THEN <<>>
    ELSE PerLineChunks(async, n - 1)
         \o (IF LineResult(async, lines[n]).kind = "chunk"
             THEN <<LineResult(async, lines[n]).chunk>> ELSE <<>>)

\* C25: while the lines are iterated the parser's buffer is empty whenever
\* the iteration stands between two lines: each non-empty line, handed to
\* the parser with its blank line, is one block of its own and leaves
\* nothing behind, so what the iteration yields and where it raises is what
\* the lines give one by one.
C25_EachLineItsOwnBlock ==
    /\ buffer = <<>>
    /\ \A i \in 1..Len(lines) :
          lines[i] # <<>> =>
              /\ parse(<<>>, LineChunk(lines[i])).buffer = <<>>
              /\ Len(LineEvents(lines[i])) <= 1
    /\ chunks = PerLineChunks(is_async, pos)
    /\ pc = "raised" => LineResult(is_async, lines[pos]).kind = "raise"
    /\ pc = "exhausted" => pos = Len(lines)

\* A token frame in standard framing was read to its end: its event line and
\* its data line were two blocks, and no chunk came of it.
C25_Witness ==
    /\ pc = "exhausted"
    /\ Len(frames) = 1
    /\ frames[1].name = "token" /\ frames[1].framing = "standard"
    /\ pos = 3
    /\ chunks = <<>>
    /\ buffer = <<>>

----------------------------------------------------------------------------
(* Properties of the streaming call and of the thinking arguments.         *)

StreamingCall == kwargs # None /\ kwargs[1].stream

\* The validation and the construction happen at the call; the post waits
\* for the first advance.
LazyPost ==
    /\ bstate = "iterator" =>
          /\ StreamingCall
          /\ BuildRequest(kwargs[1]).error = ""
          /\ request = Some(RequestData(kwargs[1]))
          /\ error = ""
          /\ posts = 0 /\ closed = 0
    /\ (StreamingCall /\ bstate # "called" /\ BuildRequest(kwargs[1]).error # "") =>
          /\ bstate \in {"raised_capability", "raised_request"}
          /\ error = BuildRequest(kwargs[1]).error
          /\ posts = 0 /\ closed = 0
    /\ bstate = "discarded" => posts = 0 /\ closed = 0
    /\ error \in StreamErrors => bstate = "raised_advance" /\ posts = 1 /\ closed = 0

\* A streaming call posts, and fails with a transport or status error, only
\* in a step that advances the iterator.
PostsAtAdvance ==
    StreamingCall =>
        /\ posts' # posts => bstate = "iterator" /\ posts' = 1
        /\ (error' \in StreamErrors /\ error' # error) => bstate = "iterator"
        /\ closed' # closed => posts = 1

\* C26: create(stream=True) validates the capabilities and builds the
\* request at the call, and posts nothing until the iterator is advanced for
\* the first time: an iterator that is never advanced sends no request and
\* opens or closes no response, and the transport and HTTP-status errors
\* are raised by the first advance, never by the call.
C26_StreamPostsAtFirstAdvance == []LazyPost /\ [][PostsAtAdvance]_vars

\* The first advance of a streaming call's iterator failed with a typed
\* error after the one post.
C26_Witness ==
    /\ StreamingCall
    /\ bstate = "raised_advance"
    /\ error = "RateLimitError"
    /\ request # None
    /\ posts = 1

\* C28 as stated: for a model without the thinking capability and a
\* thinking argument that is not None (an empty dict included), the call
\* fails before the request is built.
C28_ThinkingNeedsCapability ==
    (/\ kwargs # None
     /\ bstate # "called"
     /\ kwargs[1].thinking # None
     /\ "thinking" \notin model_caps(kwargs[1].model))
        => /\ request = None
           /\ bstate \in {"raised_capability", "raised_request"}

\* C29: on HCX-007 a response format given with no thinking argument and no
\* token limit builds a request with the injected thinking effort "none"
\* and maxCompletionTokens = 2048, the fixed fallback, not the 512 of the
\* effort table.
C29_InjectedEffortKeepsFallback ==
    (/\ kwargs # None
     /\ request # None
     /\ kwargs[1].model = "HCX-007"
     /\ kwargs[1].response_format # None
     /\ kwargs[1].thinking = None
     /\ kwargs[1].max_tokens = None
     /\ kwargs[1].max_completion_tokens = None)
        => /\ request[1].thinking = Some([effort |-> "none"])
           /\ request[1].maxCompletionTokens = Some(2048)
           /\ request[1].maxCompletionTokens # Some(get_max_tokens("HCX-007", "none"))
           /\ request[1].maxTokens = None

\* Such a call was made and its request was posted.
C29_Witness ==
    /\ kwargs # None
    /\ bstate = "posted" /\ posts = 1
    /\ kwargs[1].model = "HCX-007"
    /\ kwargs[1].response_format = Some([schema |-> TRUE])
    /\ kwargs[1].thinking = None
    /\ kwargs[1].max_tokens = None
    /\ kwargs[1].max_completion_tokens = None
    /\ request # None
    /\ request[1].thinking = Some([effort |-> "none"])
    /\ request[1].maxCompletionTokens = Some(2048)

----------------------------------------------------------------------------
(* Embeddings.acreate_batch: one acreate coroutine per text, gathered.     *)

MaxTexts == 3

\* The texts: two that make a valid request, and one longer than the 8192
\* characters EmbeddingRequest allows.
InputTexts == {"a", "b", "long"}

\* The request_id arguments: None, the empty string, and an id.
RequestIds == {None, Some(""), Some("r")}

\* EmbeddingRequest(text=text): the type of the exception raised by the
\* validation, "" when the request object is built.
EmbeddingRequest(text) == IF text = "long" THEN "ValidationError" ELSE ""

\* EmbeddingResponse(**api_response.result), for the text that was posted.
EmbeddingResponse(text) == [embedding_of |-> text]

\* What the transport answers to the post of one task.
BatchReplies == {"ok", "RateLimitError", "APIConnectionError"}

\* req_id = f"{request_id}-{i}" if request_id else None
TaskRequestId(request_id, i) ==
    IF request_id # None /\ request_id[1] # ""
    THEN Some(<<request_id[1], "-", i>>)
    ELSE None

\* task = self.acreate(text, req_id): the coroutine, not started.
NewTask(text, req_id) ==
    [text |-> text, request_id |-> req_id, state |-> "scheduled",
     result |-> None, exc |-> ""]

\* The result list handed back in the order the tasks finished.
GatherInCompletionOrder(ts, order) ==
    [k \in 1..Len(ts) |-> ts[order[k]].result[1]]

\* asyncio.gather(*tasks): the results in the order of its arguments.
gather_results(ts, order) ==
    [k \in 1..Len(ts) |-> ts[k].result[1]]

Scheduled == {i \in 1..Len(tasks) : tasks[i].state = "scheduled"}

Failed == {i \in 1..Len(tasks) : tasks[i].state = "failed"}

\* The task that failed first.
FirstFailed ==
    completed[CHOOSE k \in 1..Len(completed) :
                 /\ completed[k] \in Failed
                 /\ \A j \in 1..(k - 1) : completed[j] \notin Failed]

InitBatch ==
    /\ texts \in UNION {[1..n -> InputTexts] : n \in 0..MaxTexts}
    /\ batch_request_id \in RequestIds
    /\ tasks = <<>>
    /\ completed = <<>>
    /\ batch_pc = "called"
    /\ batch_result = None
    /\ CallIdle
    /\ BuildIdle
    /\ ClientIdle
    /\ buffer = <<>>
    /\ ParserIdle
    /\ StreamIdle
    /\ RetryIdle

BatchUnchanged ==
    UNCHANGED <<buffer, parserVars, streamVars, retryVars, callVars, buildVars, clientVars>>

\* acreate_batch up to the await: one coroutine per text, each with its
\* request id, all handed to asyncio.gather, which schedules them as tasks.
\* gather() of nothing is done at once with the empty list.
BatchCall ==
    /\ batch_pc = "called"
    /\ tasks' = [i \in 1..Len(texts) |->
                    NewTask(texts[i], TaskRequestId(batch_request_id, i - 1))]
    /\ IF Len(texts) = 0
       THEN /\ batch_pc' = "returned"
            /\ batch_result' = Some([kind |-> "return", value |-> Some(<<>>), type |-> ""])
       ELSE /\ batch_pc' = "gathering"
            /\ UNCHANGED batch_result
    /\ UNCHANGED <<texts, batch_request_id, completed>>
    /\ BatchUnchanged

\* The event loop runs the first step of the next scheduled task, in the
\* order gather() scheduled them: acreate builds its EmbeddingRequest and
\* awaits the post, or fails in the validation without a post.
TaskStep ==
    /\ batch_pc = "gathering"
    /\ Scheduled # {}
    /\ LET i == CHOOSE k \in Scheduled : \A j \in Scheduled : k <= j
           v == EmbeddingRequest(tasks[i].text)
       IN  IF v # ""
           THEN /\ tasks' = [tasks EXCEPT ![i].state = "failed", ![i].exc = v]
                /\ completed' = Append(completed, i)
           ELSE /\ tasks' = [tasks EXCEPT ![i].state = "awaiting_post"]
                /\ UNCHANGED completed
    /\ UNCHANGED <<texts, batch_request_id, batch_pc, batch_result>>
    /\ BatchUnchanged

\* The transport answers the post of one task: acreate returns the response
\* or raises.  The loop polls the transport only when no callback is ready,
\* that is after every scheduled task took its first step; the tasks go on
\* after gather() raised, since gather() does not cancel them.
IOComplete ==
    /\ batch_pc \in {"gathering", "raised"}
    /\ Scheduled = {}
    /\ \E i \in 1..Len(tasks), reply \in BatchReplies :
          /\ tasks[i].state = "awaiting_post"
          /\ tasks' = IF reply = "ok"
                      THEN [tasks EXCEPT ![i].state = "done",
                                         ![i].result = Some(EmbeddingResponse(tasks[i].text))]
                      ELSE [tasks EXCEPT ![i].state = "failed", ![i].exc = reply]
          /\ completed' = Append(completed, i)
    /\ UNCHANGED <<texts, batch_request_id, batch_pc, batch_result>>
    /\ BatchUnchanged

\* return await asyncio.gather(*tasks): the first exception of a task is
\* raised to the caller; when every task is done their results are returned.
GatherResolve ==
    /\ batch_pc = "gathering"
    /\ Scheduled = {}
    /\ IF Failed # {}
       THEN /\ batch_pc' = "raised"
            /\ batch_result' = Some([kind |-> "raise", value |-> None,
                                     type |-> tasks[FirstFailed].exc])
       ELSE /\ \A i \in 1..Len(tasks) : tasks[i].state = "done"
            /\ batch_pc' = "returned"
            /\ batch_result' = Some([kind |-> "return",
                                     value |-> Some(gather_results(tasks, completed)),
                                     type |-> ""])
    /\ UNCHANGED <<texts, batch_request_id, tasks, completed>>
    /\ BatchUnchanged

NextBatch == BatchCall \/ TaskStep \/ IOComplete \/ GatherResolve

SpecBatch == InitBatch /\ [][NextBatch]_vars

\* One task per text, in the order of the texts, each with the id of its
\* position when a request id is given; the list returned is that of the
\* texts, in their order; a failed task makes the call raise, with no list.
BatchOutcome ==
    /\ batch_pc # "called" =>
          /\ Len(tasks) = Len(texts)
          /\ \A i \in 1..Len(tasks) :
                /\ tasks[i].text = texts[i]
                /\ (batch_request_id \notin {None, Some("")}) =>
                      tasks[i].request_id = Some(<<batch_request_id[1], "-", i - 1>>)
                /\ batch_request_id = None => tasks[i].request_id = None
    /\ batch_pc = "returned" =>
          /\ batch_result # None /\ batch_result[1].kind = "return"
          /\ Failed = {}
          /\ \A i \in 1..Len(tasks) : tasks[i].state = "done"
          /\ batch_result[1].value = Some([i \in 1..Len(texts) |-> EmbeddingResponse(texts[i])])
    /\ batch_pc = "raised" =>
          /\ Failed # {}
          /\ batch_result # None /\ batch_result[1].kind = "raise"
          /\ batch_result[1].value = None
          /\ batch_result[1].type = tasks[FirstFailed].exc
    /\ batch_pc = "gathering" => batch_result = None

\* Each task posts once, and no post is answered before every task of a
\* valid text has posted: the requests are in flight together.
AllInFlightTogether ==
    \A i \in 1..Len(tasks) :
        /\ (tasks[i].state = "awaiting_post" /\ tasks'[i].state # "awaiting_post") =>
              \A j \in 1..Len(tasks) :
                  EmbeddingRequest(tasks[j].text) = "" =>
                      \/ tasks[j].state = "awaiting_post"
                      \/ j \in {completed[k] : k \in 1..Len(completed)}
        /\ (tasks'[i].state = "awaiting_post" /\ tasks[i].state # "awaiting_post") =>
              tasks[i].state = "scheduled"
        /\ tasks'[i].state = "scheduled" => tasks[i].state = "scheduled"

\* C30: acreate_batch issues one request per text, all in flight together,
\* and returns the responses in the order of the texts whatever the order in
\* which the requests complete; request i carries the id <request_id>-<i>
\* when a request id is given; a failed request makes the call raise and
\* return no partial list.
C30_BatchGathersInInputOrder == []BatchOutcome /\ [][AllInFlightTogether]_vars

\* Three requests with ids r-0, r-1, r-2 completed last first; the list
\* returned is in the order of the texts.
C30_Witness ==
    /\ batch_pc = "returned"
    /\ texts = <<"a", "b", "a">>
    /\ batch_request_id = Some("r")
    /\ completed = <<3, 2, 1>>
    /\ tasks[2].request_id = Some(<<"r", "-", 1>>)
    /\ batch_result[1].value = Some(<<EmbeddingResponse("a"), EmbeddingResponse("b"),
                                      EmbeddingResponse("a")>>)

====
